---- MODULE Spec2Model ----
(***************************************************************************)
(* The revision pipeline of the image editor: RevisionService.applyOp      *)
(* running inside PostgresClient.withImageLock, interleaved with           *)
(* ImageService.delete, over the metadata store (images, revisions), the   *)
(* object store (raw, results, thumb) and the thumbnail cache.             *)
(* Every await of the source is one step of the model.                     *)
(***************************************************************************)
EXTENDS Integers, Sequences, FiniteSets, TLC

\* ------------------------------------------------------------------ bounds
\* number of apply_op calls in flight
MaxOps == 3

\* pg Pool({ max: 20 })
PoolMax == 20

Procs == 1 .. MaxOps

\* number of undo calls
MaxUndos == 2

Undos == 1 .. MaxUndos

\* the images ingested before the calls start
ImageIds == {"A"}

VARIABLES
    localMode,      \* USE_LOCAL_STORAGE = !process.env.GCP_PROJECT_ID
    now,            \* the database clock
    images,         \* committed rows of table images
    revisions,      \* committed rows of table revisions
    lockHolder,     \* image id -> transaction holding its row lock (0: none)
    lockCount,      \* history: how many row locks have been granted
    poolInUse,      \* connections checked out of the pool
    rawBucket, resultsBucket, thumbBucket,   \* object names per bucket
    cache,          \* image ids with a thumb:<id> key in the cache
    invalidated,    \* history: calls whose cache.del(thumb:<id>) was executed
    pc,             \* apply_op call -> its position
    img,            \* apply_op call -> imageId argument
    txStart,        \* apply_op call -> NOW() of its transaction
    lockSeq,        \* history: apply_op call -> the rank of its row lock (0: none)
    txState,        \* apply_op call -> "none" | "open" | "committed" | "rolledback"
    image,          \* apply_op call -> rows returned by getImage (0 or 1)
    parent,         \* apply_op call -> rows returned by getLatestRevision (0 or 1)
    source,         \* apply_op call -> the objects it read its source bytes from
    resultPath,     \* apply_op call -> storage paths it wrote (0 or 1)
    pending,        \* apply_op call -> rows inserted and not yet committed
    err,            \* apply_op call -> the error thrown inside withImageLock
    ret,            \* apply_op call -> what the caller received
    dpc,            \* the delete call's position
    dimg,           \* the delete call's imageId argument
    dimage,         \* the delete call's image row (0 or 1)
    dfiles,         \* the delete call's listing of the results bucket
    upc,            \* undo call -> its position
    ucurrent,       \* undo call -> rows returned by getLatestRevision (0 or 1)
    uparent,        \* undo call -> rows returned by getRevision (0 or 1)
    uerr,           \* undo call -> the error it threw
    uquiet,         \* history: undo call -> when it returned no apply_op call was in
                    \* flight and the row it had read was still the latest
    ubefore,        \* history: undo call -> the undo calls that had returned when it started
    ufree,          \* history: undo call -> the apply_op calls not yet issued when it returned
    cop,            \* codec: the operation handed to IEv1Protocol.encode
    cst,            \* codec: "off" | "new" | "encoded" | "encodeFailed" | "tampered" |
                    \* "received" | "decoded"
    cbuf,           \* codec: the bytes of the message
    cbit,           \* codec: the bit of the message that was flipped (-1: none)
    cout,           \* codec: what IEv1Protocol.decode returned or threw
    cvalid,         \* what validate() returned for cop
    smime,          \* result store: mime_type of the image row apply_op works on
    sres,           \* result store: extension and content type the result was stored under
    gpc,            \* upload call: its position
    gmime,          \* upload call: mimeType argument
    gsize,          \* upload call: sizeBytes argument
    gstream,        \* upload call: number of bytes the stream delivers
    gwritten,       \* history: number of bytes the upload call wrote to raw (-1: none)
    gimage,         \* upload call: the row returned by createImage (0 or 1)
    gerr,           \* upload call: the error it threw
    hpc,            \* POST /v1/images: the position of the request
    hfile,          \* POST /v1/images: the file part of the request
    herr,           \* POST /v1/images: the message of the error passed on
    hstatus,        \* POST /v1/images: the status of the response (0: none yet)
    rpc,            \* withLock call -> its position
    rkey,           \* the lock key: the call that set it (0: absent)
    rttl,           \* the lock key: seconds left before it expires
    kretries,       \* reconnectStrategy: the retry count of the next call
    kanswers,       \* reconnectStrategy: what the calls so far returned
    wpc,            \* ImageUploader: where onDrop stands
    wuploading,     \* ImageUploader: the uploading state
    wprogress,      \* ImageUploader: the progress state
    wintervals,     \* ImageUploader: the progress intervals that are set and not cleared
    wfailed,        \* history: the last upload attempt failed and none has started since
    wdrops          \* history: the number of upload attempts started

vars == << localMode, now, images, revisions, lockHolder, lockCount, poolInUse,
           rawBucket, resultsBucket, thumbBucket, cache, invalidated,
           pc, img, txStart, lockSeq, txState, image, parent, source,
           resultPath, pending, err, ret, dpc, dimg, dimage, dfiles,
           upc, ucurrent, uparent, uerr, uquiet, ubefore, ufree,
           cop, cst, cbuf, cbit, cout, cvalid, smime, sres,
           gpc, gmime, gsize, gstream, gwritten, gimage, gerr,
           hpc, hfile, herr, hstatus,
           rpc, rkey, rttl,
           kretries, kanswers,
           wpc, wuploading, wprogress, wintervals, wfailed, wdrops >>

dbVars      == << images, revisions >>
storeVars   == << rawBucket, resultsBucket, thumbBucket >>
cacheVars   == << cache, invalidated >>
lockVars    == << lockHolder, lockCount, lockSeq >>
deleteVars  == << dpc, dimg, dimage, dfiles >>
undoVars    == << upc, ucurrent, uparent, uerr, uquiet, ubefore, ufree >>
\* the state of the operations other than apply_op and delete
codecVars   == << cop, cst, cbuf, cbit, cout >>
ingestVars  == << gpc, gmime, gsize, gstream, gwritten, gimage, gerr >>
routeVars   == << hpc, hfile, herr, hstatus >>
redisVars   == << rpc, rkey, rttl >>
reconnectVars == << kretries, kanswers >>
uploaderVars == << wpc, wuploading, wprogress, wintervals, wfailed, wdrops >>
\* the state of the cache client and of the browser
laterVars   == << redisVars, reconnectVars, uploaderVars >>
\* the state of what is outside the two services
extraVars   == << routeVars, laterVars >>
moreVars    == << cvalid, smime, sres, ingestVars, extraVars >>
auxVars     == << undoVars, codecVars, moreVars >>
\* the locals of an apply_op call, apart from pc, err and txState
applyLocals == << img, txStart, image, parent, source, resultPath, pending, ret >>

\* ---------------------------------------------------------------- values
NoProc == 0

\* uuids: kind says who minted it, n which call
Uuid(kind, n) == [kind |-> kind, n |-> n]
NullId == Uuid("null", 0)

\* a path: directory part, then <image>[_<rev>].<ext>
Path(dir, imageId, rev) == [dir |-> dir, image |-> imageId, rev |-> rev]

\* path.basename(p)
Basename(p) == [p EXCEPT !.dir = ""]

\* ImageService.upload: the path kept in images.original_path
OriginalPath(local, i) ==
    IF local THEN Path("local/user", i, NullId) ELSE Path("user", i, NullId)

\* ImageService.upload: the object the original bytes were written to
RawObject(local, i) ==
    IF local THEN Path("", i, NullId) ELSE Path("user", i, NullId)

\* thumb/<imageId>.webp
ThumbObject(i) == Path("", i, NullId)

ImageRow(local, i) == [id |-> i, original_path |-> OriginalPath(local, i)]

\* the object of a bucket a (bucket, path) read or write goes to:
\* local mode joins the bucket directory with path.basename(path)
ObjectOf(local, p) == IF local THEN Basename(p) ELSE p

\* ------------------------------------------------------ metadata store
\* PostgresClient.getImage
GetImage(i) == { r \in images : r.id = i }

\* rows of one image
RowsOf(rows, i) == { r \in rows : r.image_id = i }

\* PostgresClient.getLatestRevision: ORDER BY created_at DESC LIMIT 1,
\* as the set of rows that may come first (empty: null)
GetLatestRevision(rows, i) ==
    { r \in RowsOf(rows, i) : \A o \in RowsOf(rows, i) : o.created_at <= r.created_at }

\* PostgresClient.getRevision
GetRevision(rows, id) == { r \in rows : r.id = id }

\* PostgresClient.getRevisionHistory (as a set; ORDER BY created_at ASC)
GetRevisionHistory(rows, i) == RowsOf(rows, i)

\* const imageId = uuidv4(): the id upload names the raw object with
NewImageId == "b"

\* images.id DEFAULT uuid_generate_v4(): the id of the row createImage inserts
NewRowId == "B"

\* PostgresClient.createImage: INSERT (user_id, original_path, size_bytes,
\* mime_type) RETURNING *
NewImageRow(originalPath, sizeBytes, mimeType) ==
    [ id |-> NewRowId,
      original_path |-> originalPath,
      size_bytes |-> sizeBytes,
      mime_type |-> mimeType ]

\* a second image, ingested earlier, with one revision and a cached
\* thumbnail: its row, its revision row and its three blobs
OtherImageRow(local) == NewImageRow(OriginalPath(local, NewImageId), 1, "image/png")
OtherRevision(local) ==
    [ id |-> Uuid("db", 0),
      image_id |-> NewRowId,
      parent_id |-> NullId,
      created_at |-> 0,
      lock_seq |-> 0,
      storage_path |-> Path(IF local THEN "local" ELSE "", NewRowId, Uuid("svc", 0)) ]
OtherResult == Path("", NewRowId, Uuid("svc", 0))

\* ---------------------------------------------------------------- Init
\* the services after construction, one image ingested (and, withOther,
\* the second one as well), no request issued
ServiceStart(withOther) ==
    /\ localMode \in BOOLEAN
    /\ now = 0
    /\ images = { ImageRow(localMode, "A") }
                  \cup (IF withOther THEN { OtherImageRow(localMode) } ELSE {})
    /\ revisions = IF withOther THEN { OtherRevision(localMode) } ELSE {}
    /\ lockHolder = [i \in ImageIds |-> NoProc]
    /\ lockCount = 0
    /\ poolInUse = 0
    /\ rawBucket = { RawObject(localMode, "A") }
                     \cup (IF withOther THEN { RawObject(localMode, NewImageId) } ELSE {})
    /\ resultsBucket = IF withOther THEN { OtherResult } ELSE {}
    /\ thumbBucket = { ThumbObject("A") }
                       \cup (IF withOther THEN { ThumbObject(NewRowId) } ELSE {})
    /\ cache = {"A"} \cup (IF withOther THEN { NewRowId } ELSE {})
    /\ invalidated = {}
    /\ pc = [p \in Procs |-> "idle"]
    /\ img = [p \in Procs |-> "A"]
    /\ txStart = [p \in Procs |-> 0]
    /\ lockSeq = [p \in Procs |-> 0]
    /\ txState = [p \in Procs |-> "none"]
    /\ image = [p \in Procs |-> {}]
    /\ parent = [p \in Procs |-> {}]
    /\ source = [p \in Procs |-> {}]
    /\ resultPath = [p \in Procs |-> {}]
    /\ pending = [p \in Procs |-> {}]
    /\ err = [p \in Procs |-> "none"]
    /\ ret = [p \in Procs |-> "none"]
    /\ dpc = "idle"
    /\ dimg = "A"
    /\ dimage = {}
    /\ dfiles = {}
    /\ upc = [u \in Undos |-> "idle"]
    /\ ucurrent = [u \in Undos |-> {}]
    /\ uparent = [u \in Undos |-> {}]
    /\ uerr = [u \in Undos |-> "none"]
    /\ uquiet = [u \in Undos |-> FALSE]
    /\ ubefore = [u \in Undos |-> {}]
    /\ ufree = [u \in Undos |-> {}]

ServiceInit == ServiceStart(FALSE)

\* no operation has been handed to the codec
NoBit == -1
NoOperation == [type |-> 0]
NoResult == [ok |-> FALSE, error |-> "none"]

\* nothing has been stored for a result
NoStored == [ext |-> "none", contentType |-> "none"]

\* validate() has not been called
ValidateIdle == cvalid = FALSE

\* no result is being stored
StoreIdle == smime = "none" /\ sres = NoStored

\* no upload has been requested
IngestIdle ==
    /\ gpc = "off"
    /\ gmime = "none"
    /\ gsize = 0
    /\ gstream = 0
    /\ gwritten = -1
    /\ gimage = {}
    /\ gerr = "none"

\* a request without a file part, and no error message
NoFile == [present |-> FALSE]
NoMessage == << >>

\* no request has arrived
RouteIdle ==
    /\ hpc = "off"
    /\ hfile = NoFile
    /\ herr = NoMessage
    /\ hstatus = 0

\* the withLock calls, and the value of rkey when the key is absent
Callers == {1, 2, 3}
NoCaller == 0

\* no withLock call has been made, the key is absent
RedisIdle ==
    /\ rpc = [c \in Callers |-> "idle"]
    /\ rkey = NoCaller
    /\ rttl = 0

\* the cache client has not lost its connection
ReconnectIdle ==
    /\ kretries = 0
    /\ kanswers = << >>

\* the ImageUploader component after its first render
UploaderIdle ==
    /\ wpc = "idle"
    /\ wuploading = FALSE
    /\ wprogress = 0
    /\ wintervals = 0
    /\ wfailed = FALSE
    /\ wdrops = 0

LaterIdle == RedisIdle /\ ReconnectIdle /\ UploaderIdle

ExtraIdle == RouteIdle /\ LaterIdle

Init ==
    /\ ServiceInit
    /\ cop = NoOperation
    /\ cst = "off"
    /\ cbuf = << >>
    /\ cbit = NoBit
    /\ cout = NoResult
    /\ ValidateIdle /\ StoreIdle /\ IngestIdle /\ ExtraIdle

\* ------------------------------------------------- PostgresClient.withImageLock
\* an error thrown inside the try block: control goes to the catch clause
Throw(p, e) ==
    /\ err' = [err EXCEPT ![p] = e]
    /\ pc' = [pc EXCEPT ![p] = "rollback"]

\* applyOp(imageId, op) -> withImageLock: pool.connect(), then BEGIN.
\* NOW() of the transaction is fixed here, before the row lock is requested;
\* the clock has advanced since the last transaction began.
\* The calls are numbered in the order in which their transactions begin.
Begin(p, i) ==
    /\ pc[p] = "idle"
    /\ \A q \in Procs : q < p => pc[q] # "idle"
    /\ poolInUse < PoolMax
    /\ poolInUse' = poolInUse + 1
    /\ img' = [img EXCEPT ![p] = i]
    /\ now' = now + 1
    /\ txStart' = [txStart EXCEPT ![p] = now + 1]
    /\ txState' = [txState EXCEPT ![p] = "open"]
    /\ pc' = [pc EXCEPT ![p] = "lock"]
    /\ UNCHANGED << localMode, dbVars, lockVars, storeVars, cacheVars, image,
                    parent, source, resultPath, pending, err, ret, deleteVars, auxVars >>

\* mutant: a plain SELECT, which neither waits for nor takes the row lock
SelectForUpdate_NoLock(p) ==
    /\ pc[p] = "lock"
    /\ pc' = [pc EXCEPT ![p] = "getImage"]
    /\ UNCHANGED << localMode, now, dbVars, lockVars, poolInUse, storeVars,
                    cacheVars, txState, err, applyLocals, deleteVars, auxVars >>

\* SELECT * FROM images WHERE id = $1 FOR UPDATE: waits while another
\* transaction holds the row lock; locks nothing when no row matches.
SelectForUpdate(p) ==
    /\ pc[p] = "lock"
    /\ IF GetImage(img[p]) # {}
         THEN /\ lockHolder[img[p]] = NoProc
              /\ lockHolder' = [lockHolder EXCEPT ![img[p]] = p]
              /\ lockCount' = lockCount + 1
              /\ lockSeq' = [lockSeq EXCEPT ![p] = lockCount + 1]
         ELSE UNCHANGED lockVars
    /\ pc' = [pc EXCEPT ![p] = "getImage"]
    /\ UNCHANGED << localMode, now, dbVars, poolInUse, storeVars, cacheVars,
                    txState, err, applyLocals, deleteVars, auxVars >>

\* COMMIT: the pending rows become visible and the row lock is released
Commit(p) ==
    /\ pc[p] = "commit"
    /\ revisions' = revisions \cup pending[p]
    /\ pending' = [pending EXCEPT ![p] = {}]
    /\ txState' = [txState EXCEPT ![p] = "committed"]
    /\ lockHolder' = [i \in ImageIds |-> IF lockHolder[i] = p THEN NoProc ELSE lockHolder[i]]
    /\ pc' = [pc EXCEPT ![p] = "release"]
    /\ UNCHANGED << localMode, now, images, lockCount, lockSeq, poolInUse, storeVars,
                    cacheVars, img, txStart, image, parent, source, resultPath,
                    err, ret, deleteVars, auxVars >>

\* COMMIT fails: the error is thrown to the catch clause
CommitFail(p) ==
    /\ pc[p] = "commit"
    /\ Throw(p, "MetadataError")
    /\ UNCHANGED << localMode, now, dbVars, lockVars, poolInUse, storeVars,
                    cacheVars, txState, applyLocals, deleteVars, auxVars >>

\* mutant: the catch clause rethrows without ROLLBACK
Rollback_Missing(p) ==
    /\ pc[p] = "rollback"
    /\ pc' = [pc EXCEPT ![p] = "release"]
    /\ UNCHANGED << localMode, now, dbVars, lockVars, poolInUse, storeVars,
                    cacheVars, txState, err, applyLocals, deleteVars, auxVars >>

\* catch (error) { ROLLBACK; throw error }
Rollback(p) ==
    /\ pc[p] = "rollback"
    /\ pending' = [pending EXCEPT ![p] = {}]
    /\ txState' = [txState EXCEPT ![p] = "rolledback"]
    /\ lockHolder' = [i \in ImageIds |-> IF lockHolder[i] = p THEN NoProc ELSE lockHolder[i]]
    /\ pc' = [pc EXCEPT ![p] = "release"]
    /\ UNCHANGED << localMode, now, dbVars, lockCount, lockSeq, poolInUse, storeVars,
                    cacheVars, img, txStart, image, parent, source, resultPath,
                    err, ret, deleteVars, auxVars >>

\* finally { client.release() }, then the result or the error reaches the
\* caller and the locals of the call are gone
ReleaseClient(p) ==
    /\ pc[p] = "release"
    /\ poolInUse' = poolInUse - 1
    /\ ret' = [ret EXCEPT ![p] = IF err[p] = "none" THEN "revision" ELSE "throw"]
    /\ pc' = [pc EXCEPT ![p] = "done"]
    /\ txStart' = [txStart EXCEPT ![p] = 0]
    /\ lockSeq' = [lockSeq EXCEPT ![p] = 0]
    /\ image' = [image EXCEPT ![p] = {}]
    /\ parent' = [parent EXCEPT ![p] = {}]
    /\ source' = [source EXCEPT ![p] = {}]
    /\ resultPath' = [resultPath EXCEPT ![p] = {}]
    /\ UNCHANGED << localMode, now, dbVars, lockHolder, lockCount, storeVars,
                    cacheVars, img, txState, pending, err, deleteVars, auxVars >>

\* ------------------------------------------------- RevisionService.applyOp
\* the callback handed to withImageLock, one step per await

\* mutant: the image row is not checked
ApplyOp_GetImage_NoCheck(p) ==
    /\ pc[p] = "getImage"
    /\ image' = [image EXCEPT ![p] = GetImage(img[p])]
    /\ pc' = [pc EXCEPT ![p] = "getLatest"]
    /\ UNCHANGED << localMode, now, dbVars, lockVars, poolInUse, storeVars,
                    cacheVars, img, txStart, txState, parent, source,
                    resultPath, pending, err, ret, deleteVars, auxVars >>

\* const image = await this.db.getImage(imageId, client); if (!image) throw
ApplyOp_GetImage(p) ==
    /\ pc[p] = "getImage"
    /\ IF GetImage(img[p]) = {}
         THEN /\ Throw(p, "NotFound")
              /\ UNCHANGED image
         ELSE /\ image' = [image EXCEPT ![p] = GetImage(img[p])]
              /\ pc' = [pc EXCEPT ![p] = "getLatest"]
              /\ UNCHANGED err
    /\ UNCHANGED << localMode, now, dbVars, lockVars, poolInUse, storeVars,
                    cacheVars, img, txStart, txState, parent, source,
                    resultPath, pending, ret, deleteVars, auxVars >>

\* const parent = await this.db.getLatestRevision(imageId, client)
ApplyOp_GetLatest(p) ==
    /\ pc[p] = "getLatest"
    /\ IF GetLatestRevision(revisions, img[p]) = {}
         THEN parent' = [parent EXCEPT ![p] = {}]
         ELSE \E r \in GetLatestRevision(revisions, img[p]) :
                 parent' = [parent EXCEPT ![p] = {r}]
    /\ pc' = [pc EXCEPT ![p] = "download"]
    /\ UNCHANGED << localMode, now, dbVars, lockVars, poolInUse, storeVars,
                    cacheVars, img, txStart, txState, image, source,
                    resultPath, pending, err, ret, deleteVars, auxVars >>

\* sourcePath = parent ? parent.storage_path : image.original_path
SourcePath(p) ==
    IF parent[p] # {}
      THEN { r.storage_path : r \in parent[p] }
      ELSE { r.original_path : r \in image[p] }

\* sourceBucket = parent ? 'results' : 'raw'
SourceBucket(p) == IF parent[p] # {} THEN "results" ELSE "raw"

Bucket(name) ==
    CASE name = "raw" -> rawBucket
      [] name = "results" -> resultsBucket
      [] name = "thumb" -> thumbBucket

\* the objects a download of the source reads
SourceObjects(p) ==
    { [bucket |-> SourceBucket(p), object |-> ObjectOf(localMode, sp)] : sp \in SourcePath(p) }

\* fs.readFile / storage.download of the source, then the sharp pipeline;
\* a missing object makes the read throw
ApplyOp_Download(p) ==
    /\ pc[p] = "download"
    /\ IF \A s \in SourceObjects(p) : s.object \in Bucket(s.bucket)
         THEN /\ source' = [source EXCEPT ![p] = SourceObjects(p)]
              /\ pc' = [pc EXCEPT ![p] = "upload"]
              /\ UNCHANGED err
         ELSE /\ Throw(p, "SourceMissing")
              /\ UNCHANGED source
    /\ UNCHANGED << localMode, now, dbVars, lockVars, poolInUse, storeVars,
                    cacheVars, img, txStart, txState, image, parent,
                    resultPath, pending, ret, deleteVars, auxVars >>

\* const revisionId = uuidv4()
RevisionId(p) == Uuid("svc", p)

\* resultPath: local/<imageId>_<revisionId>.<ext> in local mode, else the
\* path CloudStorage.uploadResult returns, <imageId>_<revisionId>.<ext>
ResultPath(p) ==
    IF localMode THEN Path("local", img[p], RevisionId(p))
                 ELSE Path("", img[p], RevisionId(p))

\* the object written: results/<imageId>_<revisionId>.<ext> in both modes
ResultObject(p) == Path("", img[p], RevisionId(p))

\* fs.writeFile / storage.uploadResult succeeds
ApplyOp_UploadResult(p) ==
    /\ pc[p] = "upload"
    /\ resultsBucket' = resultsBucket \cup { ResultObject(p) }
    /\ resultPath' = [resultPath EXCEPT ![p] = { ResultPath(p) }]
    /\ pc' = [pc EXCEPT ![p] = "insert"]
    /\ UNCHANGED << localMode, now, dbVars, lockVars, poolInUse, rawBucket,
                    thumbBucket, cacheVars, img, txStart, txState, image,
                    parent, source, pending, err, ret, deleteVars, auxVars >>

\* mutant: the write error is recorded and the call carries on
ApplyOp_UploadResultFail_Swallowed(p) ==
    /\ pc[p] = "upload"
    /\ err' = [err EXCEPT ![p] = "StorageError"]
    /\ resultPath' = [resultPath EXCEPT ![p] = { ResultPath(p) }]
    /\ pc' = [pc EXCEPT ![p] = "insert"]
    /\ UNCHANGED << localMode, now, dbVars, lockVars, poolInUse, storeVars,
                    cacheVars, img, txStart, txState, image, parent, source,
                    pending, ret, deleteVars, auxVars >>

\* fs.writeFile / storage.uploadResult throws
ApplyOp_UploadResultFail(p) ==
    /\ pc[p] = "upload"
    /\ Throw(p, "StorageError")
    /\ UNCHANGED << localMode, now, dbVars, lockVars, poolInUse, storeVars,
                    cacheVars, txState, applyLocals, deleteVars, auxVars >>

\* mutant: the id minted for the storage path is passed as the parent id
ParentId_RevisionId(p) == RevisionId(p)

\* mutant: the parent id is not passed on
ParentId_Null(p) == NullId

\* parent?.id || null
ParentId(p) == IF parent[p] = {} THEN NullId ELSE (CHOOSE r \in parent[p] : TRUE).id

\* PostgresClient.createRevision: id DEFAULT uuid_generate_v4(),
\* created_at DEFAULT NOW() (the transaction's start time); lock_seq is a
\* history field, the rank of the row lock the inserting call held
NewRevision(p) ==
    { [ id |-> Uuid("db", p),
        image_id |-> img[p],
        parent_id |-> ParentId(p),
        created_at |-> txStart[p],
        lock_seq |-> lockSeq[p],
        storage_path |-> sp ] : sp \in resultPath[p] }

\* const revision = await this.db.createRevision(..., client):
\* image_id REFERENCES images(id)
ApplyOp_CreateRevision(p) ==
    /\ pc[p] = "insert"
    /\ IF GetImage(img[p]) = {}
         THEN /\ Throw(p, "MetadataError")
              /\ UNCHANGED pending
         ELSE /\ pending' = [pending EXCEPT ![p] = NewRevision(p)]
              /\ pc' = [pc EXCEPT ![p] = "invalidate"]
              /\ UNCHANGED err
    /\ UNCHANGED << localMode, now, dbVars, lockVars, poolInUse, storeVars,
                    cacheVars, img, txStart, txState, image, parent, source,
                    resultPath, ret, deleteVars, auxVars >>

\* invalidateThumbnail deleting every thumb:* key
ApplyOp_InvalidateThumbnail_AllKeys(p) ==
    /\ pc[p] = "invalidate"
    /\ cache' = {}
    /\ invalidated' = invalidated \cup {p}
    /\ pc' = [pc EXCEPT ![p] = "commit"]
    /\ UNCHANGED << localMode, now, dbVars, lockVars, poolInUse, storeVars,
                    txState, err, applyLocals, deleteVars, auxVars >>

\* await this.cache.invalidateThumbnail(imageId) succeeds
ApplyOp_InvalidateThumbnail(p) ==
    /\ pc[p] = "invalidate"
    /\ cache' = cache \ { img[p] }
    /\ invalidated' = invalidated \cup {p}
    /\ pc' = [pc EXCEPT ![p] = "commit"]
    /\ UNCHANGED << localMode, now, dbVars, lockVars, poolInUse, storeVars,
                    txState, err, applyLocals, deleteVars, auxVars >>

\* await this.cache.invalidateThumbnail(imageId) throws: nothing catches it
\* inside the callback
ApplyOp_InvalidateThumbnailFail(p) ==
    /\ pc[p] = "invalidate"
    /\ Throw(p, "CacheError")
    /\ UNCHANGED << localMode, now, dbVars, lockVars, poolInUse, storeVars,
                    cacheVars, txState, applyLocals, deleteVars, auxVars >>

ApplyStep(p) ==
    \/ \E i \in ImageIds : Begin(p, i)
    \/ SelectForUpdate(p)
    \/ ApplyOp_GetImage(p)
    \/ ApplyOp_GetLatest(p)
    \/ ApplyOp_Download(p)
    \/ ApplyOp_UploadResult(p)
    \/ ApplyOp_UploadResultFail(p)
    \/ ApplyOp_CreateRevision(p)
    \/ ApplyOp_InvalidateThumbnail(p)
    \/ ApplyOp_InvalidateThumbnailFail(p)
    \/ Commit(p)
    \/ CommitFail(p)
    \/ Rollback(p)
    \/ ReleaseClient(p)

\* ------------------------------------------------- ImageService.delete
applyVars == << pc, img, txStart, txState, image, parent, source, resultPath,
                pending, err, ret >>

\* const image = await this.db.getImage(imageId); if (!image) throw
Delete_GetImage(i) ==
    /\ dpc = "idle"
    /\ dimg' = i
    /\ dimage' = GetImage(i)
    /\ dpc' = IF GetImage(i) = {} THEN "failed"
              ELSE IF localMode THEN "unlinkRaw" ELSE "list"
    /\ UNCHANGED << localMode, now, dbVars, lockVars, poolInUse, storeVars,
                    cacheVars, applyVars, dfiles, auxVars >>

\* local mode: fs.unlink(raw/basename(image.original_path)).catch(() => {})
Delete_UnlinkRaw ==
    /\ dpc = "unlinkRaw"
    /\ rawBucket' = rawBucket \ { Basename(r.original_path) : r \in dimage }
    /\ dpc' = "unlinkThumb"
    /\ UNCHANGED << localMode, now, dbVars, lockVars, poolInUse, resultsBucket,
                    thumbBucket, cacheVars, applyVars, dimg, dimage, dfiles, auxVars >>

\* local mode: fs.unlink(thumb/<imageId>.webp).catch(() => {})
Delete_UnlinkThumb ==
    /\ dpc = "unlinkThumb"
    /\ thumbBucket' = thumbBucket \ { ThumbObject(dimg) }
    /\ dpc' = "invalidate"
    /\ UNCHANGED << localMode, now, dbVars, lockVars, poolInUse, rawBucket,
                    resultsBucket, cacheVars, applyVars, dimg, dimage, dfiles, auxVars >>

\* CloudStorage.deleteAllForImage: resultsBucket.getFiles({ prefix: imageId })
DeleteAllForImage_GetFiles ==
    /\ dpc = "list"
    /\ dfiles' = { o \in resultsBucket : o.dir = "" /\ o.image = dimg }
    /\ dpc' = "deleteFiles"
    /\ UNCHANGED << localMode, now, dbVars, lockVars, poolInUse, storeVars,
                    cacheVars, applyVars, dimg, dimage, auxVars >>

\* CloudStorage.deleteAllForImage: Promise.all(files.map(file.delete))
DeleteAllForImage_DeleteFiles ==
    /\ dpc = "deleteFiles"
    /\ resultsBucket' = resultsBucket \ dfiles
    /\ dpc' = "deleteThumb"
    /\ UNCHANGED << localMode, now, dbVars, lockVars, poolInUse, rawBucket,
                    thumbBucket, cacheVars, applyVars, dimg, dimage, dfiles, auxVars >>

\* CloudStorage.deleteAllForImage: this.delete('thumb', <imageId>.webp)
DeleteAllForImage_DeleteThumb ==
    /\ dpc = "deleteThumb"
    /\ thumbBucket' = thumbBucket \ { ThumbObject(dimg) }
    /\ dfiles' = {}
    /\ dpc' = "deleteRaw"
    /\ UNCHANGED << localMode, now, dbVars, lockVars, poolInUse, rawBucket,
                    resultsBucket, cacheVars, applyVars, dimg, dimage, auxVars >>

\* await this.storage.delete('raw', image.original_path)
Delete_DeleteRaw ==
    /\ dpc = "deleteRaw"
    /\ rawBucket' = rawBucket \ { r.original_path : r \in dimage }
    /\ dpc' = "invalidate"
    /\ UNCHANGED << localMode, now, dbVars, lockVars, poolInUse, resultsBucket,
                    thumbBucket, cacheVars, applyVars, dimg, dimage, dfiles, auxVars >>

\* await this.cache.invalidateThumbnail(imageId)
Delete_InvalidateThumbnail ==
    /\ dpc = "invalidate"
    /\ cache' = cache \ { dimg }
    /\ dpc' = "deleteImage"
    /\ UNCHANGED << localMode, now, dbVars, lockVars, poolInUse, storeVars,
                    invalidated, applyVars, dimg, dimage, dfiles, auxVars >>

\* PostgresClient.deleteImage: DELETE FROM images WHERE id = $1 waits for the
\* row lock; revisions.image_id is ON DELETE CASCADE
Delete_DeleteImage ==
    /\ dpc = "deleteImage"
    /\ lockHolder[dimg] = NoProc
    /\ images' = { r \in images : r.id # dimg }
    /\ revisions' = { r \in revisions : r.image_id # dimg }
    /\ dimage' = {}
    /\ dpc' = "done"
    /\ UNCHANGED << localMode, now, lockVars, poolInUse, storeVars, cacheVars,
                    applyVars, dimg, dfiles, auxVars >>

DeleteStep ==
    \/ \E i \in ImageIds : Delete_GetImage(i)
    \/ Delete_UnlinkRaw
    \/ Delete_UnlinkThumb
    \/ DeleteAllForImage_GetFiles
    \/ DeleteAllForImage_DeleteFiles
    \/ DeleteAllForImage_DeleteThumb
    \/ Delete_DeleteRaw
    \/ Delete_InvalidateThumbnail
    \/ Delete_DeleteImage

\* ------------------------------------------------- RevisionService.undo
\* everything an undo call leaves alone apart from the cache
undoFrame == << localMode, now, dbVars, lockVars, poolInUse, storeVars,
                applyVars, deleteVars, codecVars, moreVars >>

\* throw new Error(...): the call ends, nothing is returned
Undo_Throw(u, e) ==
    /\ uerr' = [uerr EXCEPT ![u] = e]
    /\ upc' = [upc EXCEPT ![u] = "done"]
    /\ ufree' = [ufree EXCEPT ![u] = { p \in Procs : pc[p] = "idle" }]

\* mutant: the check on current.parent_id is left out
Undo_GetLatest_NoOriginalCheck(u, i) ==
    /\ upc[u] = "idle"
    /\ \A v \in Undos : v < u => upc[v] # "idle"
    /\ ubefore' = [ubefore EXCEPT ![u] = { v \in Undos : upc[v] = "done" }]
    /\ \E cur \in SUBSET GetLatestRevision(revisions, i) :
          /\ Cardinality(cur) = (IF GetLatestRevision(revisions, i) = {} THEN 0 ELSE 1)
          /\ ucurrent' = [ucurrent EXCEPT ![u] = cur]
          /\ IF cur = {}
               THEN Undo_Throw(u, "NothingToUndo")
               ELSE /\ upc' = [upc EXCEPT ![u] = "getRevision"]
                    /\ UNCHANGED << uerr, ufree >>
    /\ UNCHANGED << undoFrame, cacheVars, uparent, uquiet >>

\* mutant: undo removes the row it undoes
Undo_GetLatest_DeletesRow(u, i) ==
    /\ upc[u] = "idle"
    /\ \A v \in Undos : v < u => upc[v] # "idle"
    /\ ubefore' = [ubefore EXCEPT ![u] = { v \in Undos : upc[v] = "done" }]
    /\ \E cur \in SUBSET GetLatestRevision(revisions, i) :
          /\ Cardinality(cur) = (IF GetLatestRevision(revisions, i) = {} THEN 0 ELSE 1)
          /\ ucurrent' = [ucurrent EXCEPT ![u] = cur]
          /\ revisions' = revisions \ cur
          /\ IF cur = {}
               THEN Undo_Throw(u, "NothingToUndo")
               ELSE IF \E r \in cur : r.parent_id = NullId
                 THEN Undo_Throw(u, "CannotUndoOriginal")
                 ELSE /\ upc' = [upc EXCEPT ![u] = "getRevision"]
                      /\ UNCHANGED << uerr, ufree >>
    /\ UNCHANGED << localMode, now, images, lockVars, poolInUse, storeVars,
                    applyVars, deleteVars, codecVars, moreVars, cacheVars, uparent,
                    uquiet >>

\* const current = await this.db.getLatestRevision(imageId), on the pool:
\* no transaction, no row lock; then the two checks on current.
\* The undo calls are numbered in the order in which they start.
Undo_GetLatest(u, i) ==
    /\ upc[u] = "idle"
    /\ \A v \in Undos : v < u => upc[v] # "idle"
    /\ ubefore' = [ubefore EXCEPT ![u] = { v \in Undos : upc[v] = "done" }]
    /\ \E cur \in SUBSET GetLatestRevision(revisions, i) :
          /\ Cardinality(cur) = (IF GetLatestRevision(revisions, i) = {} THEN 0 ELSE 1)
          /\ ucurrent' = [ucurrent EXCEPT ![u] = cur]
          /\ IF cur = {}
               THEN Undo_Throw(u, "NothingToUndo")
               ELSE IF \E r \in cur : r.parent_id = NullId
                 THEN Undo_Throw(u, "CannotUndoOriginal")
                 ELSE /\ upc' = [upc EXCEPT ![u] = "getRevision"]
                      /\ UNCHANGED << uerr, ufree >>
    /\ UNCHANGED << undoFrame, cacheVars, uparent, uquiet >>

\* const parent = await this.db.getRevision(current.parent_id);
\* if (!parent) throw
Undo_GetRevision(u) ==
    /\ upc[u] = "getRevision"
    /\ LET found == UNION { GetRevision(revisions, r.parent_id) : r \in ucurrent[u] } IN
          /\ uparent' = [uparent EXCEPT ![u] = found]
          /\ IF found = {}
               THEN Undo_Throw(u, "ParentNotFound")
               ELSE /\ upc' = [upc EXCEPT ![u] = "invalidate"]
                    /\ UNCHANGED << uerr, ufree >>
    /\ UNCHANGED << undoFrame, cacheVars, ucurrent, uquiet, ubefore >>

\* await this.cache.invalidateThumbnail(imageId); return parent
Undo_InvalidateThumbnail(u, i) ==
    /\ upc[u] = "invalidate"
    /\ cache' = cache \ { i }
    /\ upc' = [upc EXCEPT ![u] = "done"]
    /\ ufree' = [ufree EXCEPT ![u] = { p \in Procs : pc[p] = "idle" }]
    /\ uquiet' = [uquiet EXCEPT ![u] =
                     /\ \A p \in Procs : pc[p] \in {"idle", "done"}
                     /\ ucurrent[u] = GetLatestRevision(revisions, i)]
    /\ UNCHANGED << undoFrame, invalidated, ucurrent, uparent, uerr, ubefore >>

\* the cache is down: client.del rejects and undo rethrows
Undo_InvalidateThumbnailFail(u) ==
    /\ upc[u] = "invalidate"
    /\ Undo_Throw(u, "CacheError")
    /\ UNCHANGED << undoFrame, cacheVars, ucurrent, uparent, uquiet, ubefore >>

UndoStep(u) ==
    \/ \E i \in ImageIds : Undo_GetLatest(u, i)
    \/ Undo_GetRevision(u)
    \/ \E i \in ImageIds : Undo_InvalidateThumbnail(u, i)
    \/ Undo_InvalidateThumbnailFail(u)

\* the undo call returned a revision to its caller
UndoSucceeded(u) == upc[u] = "done" /\ uerr[u] = "none"

\* apply_op and undo calls on one image, issued in any order
UndoNext ==
    \/ \E p \in Procs : ApplyStep(p)
    \/ \E u \in Undos : UndoStep(u)

UndoSpec == Init /\ [][UndoNext]_vars

\* ------------------------------------------------- Operation
\* enum OpType
ROTATE == 1
FLIP == 2
RESIZE == 3
COMPRESS == 4

\* a parameter that was left out (undefined)
Undefined == -1

RotateOp(degrees) == [type |-> ROTATE, degrees |-> degrees]
FlipOp(horizontal, vertical) ==
    [type |-> FLIP, horizontal |-> horizontal, vertical |-> vertical]
ResizeOp(width, height) == [type |-> RESIZE, width |-> width, height |-> height]
CompressOp(quality) == [type |-> COMPRESS, quality |-> quality]

\* an optional number in a condition: undefined and 0 are falsy
Truthy(n) == n # Undefined /\ n # 0

\* Operation.validate()
\* validate() with RotateOp accepting any angle
Validate_AnyDegrees(op) ==
    CASE op.type = ROTATE -> TRUE
      [] op.type = FLIP -> op.horizontal \in BOOLEAN /\ op.vertical \in BOOLEAN
      [] op.type = RESIZE ->
            /\ Truthy(op.width) \/ Truthy(op.height)
            /\ ~ (Truthy(op.width) /\ (op.width < 200 \/ op.width > 4000))
            /\ ~ (Truthy(op.height) /\ (op.height < 200 \/ op.height > 4000))
      [] op.type = COMPRESS -> op.quality >= 10 /\ op.quality <= 100
      [] OTHER -> FALSE

\* validate() with CompressOp excluding the two bounds
Validate_StrictQuality(op) ==
    CASE op.type = ROTATE -> op.degrees \in {90, 180, 270}
      [] op.type = FLIP -> op.horizontal \in BOOLEAN /\ op.vertical \in BOOLEAN
      [] op.type = RESIZE ->
            /\ Truthy(op.width) \/ Truthy(op.height)
            /\ ~ (Truthy(op.width) /\ (op.width < 200 \/ op.width > 4000))
            /\ ~ (Truthy(op.height) /\ (op.height < 200 \/ op.height > 4000))
      [] op.type = COMPRESS -> op.quality > 10 /\ op.quality < 100
      [] OTHER -> FALSE

Validate(op) ==
    CASE op.type = ROTATE -> op.degrees \in {90, 180, 270}
      [] op.type = FLIP -> op.horizontal \in BOOLEAN /\ op.vertical \in BOOLEAN
      [] op.type = RESIZE ->
            /\ Truthy(op.width) \/ Truthy(op.height)
            /\ ~ (Truthy(op.width) /\ (op.width < 200 \/ op.width > 4000))
            /\ ~ (Truthy(op.height) /\ (op.height < 200 \/ op.height > 4000))
      [] op.type = COMPRESS -> op.quality >= 10 /\ op.quality <= 100
      [] OTHER -> FALSE

\* the operations handed to the codec: valid ones and ones just out of range
DegreesIn == {0, 90, 180, 270}
SizesIn == {Undefined, 199, 200, 800, 4000}
QualitiesIn == {9, 10, 55, 100, 101}

Operations ==
    { RotateOp(d) : d \in DegreesIn }
      \cup { FlipOp(h, v) : h \in BOOLEAN, v \in BOOLEAN }
      \cup { ResizeOp(w, h) : w \in SizesIn, h \in SizesIn }
      \cup { CompressOp(q) : q \in QualitiesIn }

\* ------------------------------------------------- IEv1Protocol
PROTOCOL_VERSION == 1
HEADER_SIZE == 12

\* a 32-bit word is the set of the positions of its 1 bits (bit 0 lowest)
BitsOf(n, width) == { b \in 0 .. width - 1 : (n \div 2^b) % 2 = 1 }

RECURSIVE ValueOf(_)
ValueOf(w) ==
    IF w = {} THEN 0
    ELSE LET b == CHOOSE x \in w : TRUE IN 2^b + ValueOf(w \ {b})

\* the word written as hexadecimal digits, highest first
FromHex(digits) ==
    UNION { { 4 * (Len(digits) - k) + b : b \in BitsOf(digits[k], 4) }
            : k \in 1 .. Len(digits) }

\* 0xEDB88320
CRC_POLY == FromHex(<< 14, 13, 11, 8, 8, 3, 2, 0 >>)
\* 0xFFFFFFFF
CRC_ONES == FromHex(<< 15, 15, 15, 15, 15, 15, 15, 15 >>)

\* a ^ b
Xor(a, b) == { x \in 0 .. 31 : (x \in a) # (x \in b) }

\* w >>> 1
ShiftRight(w) == { b - 1 : b \in w \ {0} }

\* for (j = 0; j < 8; j++) crc = (crc >>> 1) ^ (0xEDB88320 & -(crc & 1))
RECURSIVE Crc32Bits(_, _)
Crc32Bits(crc, j) ==
    IF j = 0 THEN crc
    ELSE Crc32Bits(IF 0 \in crc THEN Xor(ShiftRight(crc), CRC_POLY)
                                ELSE ShiftRight(crc), j - 1)

\* for (i = 0; i < data.length; i++) { crc ^= data[i]; ... }
\* (the value after byte i is computed before byte i + 1 is taken up)
RECURSIVE Crc32Bytes(_, _, _)
Crc32Bytes(crc, data, i) ==
    IF i > Len(data) THEN crc
    ELSE CHOOSE r \in { Crc32Bytes(c, data, i + 1) :
                          c \in { Crc32Bits(Xor(crc, BitsOf(data[i], 8)), 8) } } : TRUE

\* IEv1Protocol.calculateCRC32
CalculateCRC32(data) == Xor(Crc32Bytes(CRC_ONES, data, 1), CRC_ONES)

\* buf.writeUInt8(value): throws RangeError unless 0 <= value <= 255
FitsUInt8(v) == v >= 0 /\ v <= 255

\* mutant: the high byte first
WriteUInt16LE_BigEndian(v) == << v \div 256, v % 256 >>

\* buf.writeUInt16LE(value) for a value in range
WriteUInt16LE(v) == << v % 256, v \div 256 >>

\* buf.writeUInt32LE(value) for a value below 2^31
WriteUInt32LE(v) ==
    << v % 256, (v \div 256) % 256, (v \div 65536) % 256, v \div 16777216 >>

\* buf.writeUInt32LE(word)
WordByte(w, k) == ValueOf({ b - 8 * k : b \in { x \in w : x \div 8 = k } })
WriteWordLE(w) == << WordByte(w, 0), WordByte(w, 1), WordByte(w, 2), WordByte(w, 3) >>

\* data.readUInt16LE(offset)
ReadUInt16LE(data, offset) == data[offset + 1] + 256 * data[offset + 2]

\* data.readUInt32LE(offset), as a word
ReadUInt32LE(data, offset) ==
    UNION { { 8 * k + b : b \in BitsOf(data[offset + 1 + k], 8) } : k \in 0 .. 3 }

Ok(bytes) == [ok |-> TRUE, bytes |-> bytes]
EncodeError(e) == [ok |-> FALSE, error |-> e]

\* IEv1Protocol.encodePayload
EncodePayload(op) ==
    CASE op.type = ROTATE ->
            IF FitsUInt8(op.degrees) THEN Ok(<< op.degrees >>)
                                     ELSE EncodeError("RangeError")
      [] op.type = FLIP ->
            Ok(<< (IF op.horizontal THEN 1 ELSE 0) + (IF op.vertical THEN 2 ELSE 0) >>)
      [] op.type = RESIZE ->
            Ok(WriteUInt32LE(IF Truthy(op.width) THEN op.width ELSE 0)
                 \o WriteUInt32LE(IF Truthy(op.height) THEN op.height ELSE 0))
      [] op.type = COMPRESS ->
            IF FitsUInt8(op.quality) THEN Ok(<< op.quality >>)
                                     ELSE EncodeError("RangeError")
      [] OTHER -> EncodeError("UnknownOperationType")

\* IEv1Protocol.encode
Encode(op) ==
    LET payload == EncodePayload(op) IN
    IF ~ payload.ok THEN payload
    ELSE Ok(WriteUInt16LE(PROTOCOL_VERSION)
              \o WriteUInt16LE(op.type)
              \o WriteUInt32LE(Len(payload.bytes))
              \o WriteWordLE(CalculateCRC32(payload.bytes))
              \o payload.bytes)

Decoded(op) == [ok |-> TRUE, op |-> op]
DecodeError(e) == [ok |-> FALSE, error |-> e]

\* readUInt32LE(offset) || undefined
OrUndefined(n) == IF n = 0 THEN Undefined ELSE n

\* IEv1Protocol.decodePayload
DecodePayload(opType, payload) ==
    CASE opType = ROTATE ->
            IF Len(payload) < 1 THEN DecodeError("InvalidRotatePayload")
            ELSE Decoded(RotateOp(payload[1]))
      [] opType = FLIP ->
            IF Len(payload) < 1 THEN DecodeError("InvalidFlipPayload")
            ELSE Decoded(FlipOp(0 \in BitsOf(payload[1], 8), 1 \in BitsOf(payload[1], 8)))
      [] opType = RESIZE ->
            IF Len(payload) < 8 THEN DecodeError("InvalidResizePayload")
            ELSE Decoded(ResizeOp(OrUndefined(ValueOf(ReadUInt32LE(payload, 0))),
                                  OrUndefined(ValueOf(ReadUInt32LE(payload, 4)))))
      [] opType = COMPRESS ->
            IF Len(payload) < 1 THEN DecodeError("InvalidCompressPayload")
            ELSE Decoded(CompressOp(payload[1]))
      [] OTHER -> DecodeError("UnknownOperationType")

\* data.length < HEADER_SIZE + payloadLen, payloadLen a word
Truncated(data, payloadLen) ==
    \/ 31 \in payloadLen
    \/ Len(data) - HEADER_SIZE < ValueOf(payloadLen)

\* mutant: the version field is not looked at
Decode_AnyVersion(data) ==
    IF Len(data) < HEADER_SIZE THEN DecodeError("TooShort")
    ELSE LET opType == ReadUInt16LE(data, 2)
             payloadLen == ReadUInt32LE(data, 4)
             expectedChecksum == ReadUInt32LE(data, 8)
         IN  IF Truncated(data, payloadLen) THEN DecodeError("PayloadTruncated")
             ELSE LET payload == SubSeq(data, HEADER_SIZE + 1,
                                        HEADER_SIZE + ValueOf(payloadLen))
                  IN  IF CalculateCRC32(payload) # expectedChecksum
                        THEN DecodeError("ChecksumMismatch")
                        ELSE DecodePayload(opType, payload)

\* IEv1Protocol.decode
Decode(data) ==
    IF Len(data) < HEADER_SIZE THEN DecodeError("TooShort")
    ELSE IF ReadUInt16LE(data, 0) # PROTOCOL_VERSION THEN DecodeError("UnsupportedVersion")
    ELSE LET opType == ReadUInt16LE(data, 2)
             payloadLen == ReadUInt32LE(data, 4)
             expectedChecksum == ReadUInt32LE(data, 8)
         IN  IF Truncated(data, payloadLen) THEN DecodeError("PayloadTruncated")
             ELSE LET payload == SubSeq(data, HEADER_SIZE + 1,
                                        HEADER_SIZE + ValueOf(payloadLen))
                  IN  IF CalculateCRC32(payload) # expectedChecksum
                        THEN DecodeError("ChecksumMismatch")
                        ELSE DecodePayload(opType, payload)

\* the message with bit k flipped (bit 0 is the lowest bit of the first byte)
FlipBit(data, k) ==
    [data EXCEPT ![k \div 8 + 1] = ValueOf(Xor(BitsOf(@, 8), {k % 8}))]

\* everything the codec leaves alone
serviceVars == << localMode, now, dbVars, lockVars, poolInUse, storeVars,
                  cacheVars, applyVars, deleteVars, undoVars >>

\* const buf = IEv1Protocol.encode(op)
Codec_Encode ==
    /\ cst = "new"
    /\ LET e == Encode(cop) IN
          /\ cst' = IF e.ok THEN "encoded" ELSE "encodeFailed"
          /\ cbuf' = IF e.ok THEN e.bytes ELSE << >>
    /\ UNCHANGED << serviceVars, moreVars, cop, cbit, cout >>

\* one bit of the message changes between the encoder and the decoder
Codec_FlipBit(k) ==
    /\ cst = "encoded"
    /\ k < 8 * Len(cbuf)
    /\ cbuf' = FlipBit(cbuf, k)
    /\ cbit' = k
    /\ cst' = "tampered"
    /\ UNCHANGED << serviceVars, moreVars, cop, cout >>

\* IEv1Protocol.decode(buf)
Codec_Decode ==
    /\ cst \in {"encoded", "tampered", "received"}
    /\ cout' = Decode(cbuf)
    /\ cst' = "decoded"
    /\ UNCHANGED << serviceVars, moreVars, cop, cbuf, cbit >>

\* the longest message: a 12-byte header and the 8 bytes of a RESIZE payload
MaxMessageBits == 8 * (HEADER_SIZE + 8)

CodecInit ==
    /\ ServiceInit
    /\ cop \in Operations
    /\ cst = "new"
    /\ cbuf = << >>
    /\ cbit = NoBit
    /\ cout = NoResult
    /\ ValidateIdle /\ StoreIdle /\ IngestIdle /\ ExtraIdle

CodecNext ==
    \/ Codec_Encode
    \/ \E k \in 0 .. MaxMessageBits - 1 : Codec_FlipBit(k)
    \/ Codec_Decode

CodecSpec == CodecInit /\ [][CodecNext]_vars

\* ------------------------------------------------- Operation.validate
\* the parameter values validate() is called with
DegreesTried == {0, 45, 90, 180, 270, 360}
SizesTried == {Undefined, 0, 100, 199, 200, 4000, 4001, 5000}
QualitiesTried == {5, 9, 10, 50, 100, 101}

OperationsTried ==
    { RotateOp(d) : d \in DegreesTried }
      \cup { FlipOp(h, v) : h \in BOOLEAN, v \in BOOLEAN }
      \cup { ResizeOp(w, h) : w \in SizesTried, h \in SizesTried }
      \cup { CompressOp(q) : q \in QualitiesTried }

\* op.validate()
Op_Validate ==
    /\ cst = "new"
    /\ cvalid' = Validate(cop)
    /\ cst' = "validated"
    /\ UNCHANGED << serviceVars, smime, sres, ingestVars, extraVars, cop, cbuf,
                    cbit, cout >>

ValidateInit ==
    /\ ServiceInit
    /\ cop \in OperationsTried
    /\ cst = "new"
    /\ cbuf = << >>
    /\ cbit = NoBit
    /\ cout = NoResult
    /\ ValidateIdle /\ StoreIdle /\ IngestIdle /\ ExtraIdle

ValidateNext == Op_Validate

ValidateSpec == ValidateInit /\ [][ValidateNext]_vars

\* ------------------------------------------- how a result blob is stored
\* mime types ImageService.upload lets into images.mime_type
AllowedMimes == {"image/jpeg", "image/png"}

\* CloudStorage.getExtension
GetExtension(mimeType) ==
    CASE mimeType = "image/jpeg" -> "jpg"
      [] mimeType = "image/png" -> "png"
      [] mimeType = "image/webp" -> "webp"
      [] OTHER -> "bin"

\* applyOp in local mode: image.mime_type === 'image/jpeg' ? 'jpg' : 'png'
LocalExtension(mimeType) == IF mimeType = "image/jpeg" THEN "jpg" ELSE "png"

\* a file written by fs.writeFile carries no content type
NoContentType == "none"

\* the extension and content type applyOp stores the result of cop under,
\* for an image row whose mime_type is smime (cop has passed validate())
ApplyOp_StoreResult ==
    /\ smime # "none"
    /\ sres = NoStored
    /\ sres' = IF localMode
                 THEN [ext |-> LocalExtension(smime), contentType |-> NoContentType]
                 ELSE [ext |-> GetExtension(smime), contentType |-> smime]
    /\ UNCHANGED << serviceVars, codecVars, cvalid, smime, ingestVars, extraVars >>

StoreInit ==
    /\ ServiceInit
    /\ cop \in { op \in Operations : Validate(op) }
    /\ cst = "off"
    /\ cbuf = << >>
    /\ cbit = NoBit
    /\ cout = NoResult
    /\ smime \in AllowedMimes
    /\ sres = NoStored
    /\ ValidateIdle /\ IngestIdle /\ ExtraIdle

StoreNext == ApplyOp_StoreResult

StoreSpec == StoreInit /\ [][StoreNext]_vars

\* --------------------------------------------------- ImageService.upload
\* 10 * 1024 * 1024
MaxImageBytes == 10 * 1024 * 1024

\* the arguments upload is called with
MimesOffered == {"image/jpeg", "image/png", "image/gif", "image/webp"}
SizesOffered == {1, MaxImageBytes, MaxImageBytes + 1}
StreamLengths == {1, MaxImageBytes, MaxImageBytes + 1}

\* what an upload step leaves alone, besides the stores it may write
ingestFrame == << localMode, now, revisions, lockVars, poolInUse, resultsBucket,
                  invalidated, applyVars, deleteVars, undoVars, codecVars,
                  cvalid, smime, sres, extraVars, gmime, gsize, gstream >>

\* throw from upload
Upload_Throw(e) ==
    /\ gerr' = e
    /\ gpc' = "failed"

\* the size and mime checks, without the mime check
Upload_Validate_NoMimeCheck ==
    /\ gpc = "new"
    /\ IF gsize > MaxImageBytes
         THEN Upload_Throw("TooLarge")
         ELSE gpc' = "write" /\ UNCHANGED gerr
    /\ UNCHANGED << ingestFrame, images, rawBucket, thumbBucket, cache,
                    gwritten, gimage >>

\* if (sizeBytes > 10 * 1024 * 1024) throw ...;
\* if (!['image/jpeg', 'image/png'].includes(mimeType)) throw ...
Upload_Validate ==
    /\ gpc = "new"
    /\ IF gsize > MaxImageBytes
         THEN Upload_Throw("TooLarge")
         ELSE IF gmime \notin AllowedMimes
                THEN Upload_Throw("UnsupportedMime")
                ELSE gpc' = "write" /\ UNCHANGED gerr
    /\ UNCHANGED << ingestFrame, images, rawBucket, thumbBucket, cache,
                    gwritten, gimage >>

\* the stream is read to its end and the buffer is written:
\* fs.writeFile(raw/<imageId>.<ext>) or storage.uploadRaw(userId, imageId, ...)
Upload_WriteRaw ==
    /\ gpc = "write"
    /\ rawBucket' = rawBucket \cup { RawObject(localMode, NewImageId) }
    /\ gwritten' = gstream
    /\ gpc' = "createImage"
    /\ UNCHANGED << ingestFrame, images, thumbBucket, cache, gimage, gerr >>

\* the write to raw fails
Upload_WriteRawFail ==
    /\ gpc = "write"
    /\ Upload_Throw("StorageError")
    /\ UNCHANGED << ingestFrame, images, rawBucket, thumbBucket, cache,
                    gwritten, gimage >>

\* image = await this.db.createImage(userId, storagePath, sizeBytes, mimeType)
Upload_CreateImage ==
    /\ gpc = "createImage"
    /\ LET row == NewImageRow(OriginalPath(localMode, NewImageId), gsize, gmime) IN
        /\ images' = images \cup { row }
        /\ gimage' = { row }
    /\ gpc' = "thumbnail"
    /\ UNCHANGED << ingestFrame, rawBucket, thumbBucket, cache, gwritten, gerr >>

\* the insert fails
Upload_CreateImageFail ==
    /\ gpc = "createImage"
    /\ Upload_Throw("MetadataError")
    /\ UNCHANGED << ingestFrame, images, rawBucket, thumbBucket, cache,
                    gwritten, gimage >>

\* generateThumbnail(image.id, storagePath, buffer): the cache is asked
\* first; otherwise sharp makes the thumbnail and it is written to
\* thumb/<image.id>.webp
GenerateThumbnail_Write ==
    /\ gpc = "thumbnail"
    /\ \E row \in gimage :
          IF row.id \in cache
            THEN /\ gpc' = "done"
                 /\ UNCHANGED thumbBucket
            ELSE /\ thumbBucket' = thumbBucket \cup { ThumbObject(row.id) }
                 /\ gpc' = "setThumbnail"
    /\ UNCHANGED << ingestFrame, images, rawBucket, cache, gwritten, gimage, gerr >>

\* sharp rejects the bytes, or the write to thumb fails
GenerateThumbnail_Fail ==
    /\ gpc = "thumbnail"
    /\ \E row \in gimage : row.id \notin cache
    /\ Upload_Throw("ThumbnailError")
    /\ UNCHANGED << ingestFrame, images, rawBucket, thumbBucket, cache,
                    gwritten, gimage >>

\* await this.cache.setThumbnail(imageId, thumbnail)
GenerateThumbnail_SetThumbnail ==
    /\ gpc = "setThumbnail"
    /\ \E row \in gimage : cache' = cache \cup { row.id }
    /\ gpc' = "done"
    /\ UNCHANGED << ingestFrame, images, rawBucket, thumbBucket, gwritten,
                    gimage, gerr >>

IngestInit ==
    /\ ServiceInit
    /\ cop = NoOperation
    /\ cst = "off"
    /\ cbuf = << >>
    /\ cbit = NoBit
    /\ cout = NoResult
    /\ ValidateIdle /\ StoreIdle /\ ExtraIdle
    /\ gpc = "new"
    /\ gmime \in MimesOffered
    /\ gsize \in SizesOffered
    /\ gstream \in StreamLengths
    /\ gwritten = -1
    /\ gimage = {}
    /\ gerr = "none"

IngestNext ==
    \/ Upload_Validate
    \/ Upload_WriteRaw
    \/ Upload_WriteRawFail
    \/ Upload_CreateImage
    \/ Upload_CreateImageFail
    \/ GenerateThumbnail_Write
    \/ GenerateThumbnail_Fail
    \/ GenerateThumbnail_SetThumbnail

IngestSpec == IngestInit /\ [][IngestNext]_vars

\* ------------------------------------------------------ POST /v1/images
\* multer limits.fileSize
MaxFileSize == 10 * 1024 * 1024

\* error messages, word by word
FileTooLarge == << "File", "too", "large" >>
ImageTooLarge == << "Image", "too", "large", "(max", "10", "MB)" >>
OnlyJpgAndPng == << "Only", "JPG", "and", "PNG", "allowed" >>

\* message.includes(needle)
Includes(message, needle) ==
    \E i \in 1 .. Len(message) - Len(needle) + 1 :
        SubSeq(message, i, i + Len(needle) - 1) = needle

\* the message of the error upload threw
ErrorMessage(e) ==
    CASE e = "TooLarge" -> ImageTooLarge
      [] e = "UnsupportedMime" -> OnlyJpgAndPng
      [] e = "StorageError" -> << "storage", "write", "failed" >>
      [] e = "MetadataError" -> << "insert", "failed" >>
      [] e = "ThumbnailError" -> << "Input", "buffer", "contains", "unsupported",
                                    "image", "format" >>
      [] OTHER -> << "Error" >>

\* the application's error handler
ErrorStatus(message) ==
    IF Includes(message, << "not", "found" >>) THEN 404
    ELSE IF Includes(message, << "Invalid" >>) THEN 400
    ELSE IF Includes(message, << "Cannot", "decode", "image" >>) THEN 422
    ELSE IF Includes(message, << "timeout" >>) THEN 504
    ELSE 500

\* the requests sent
FilesSent ==
    { [present |-> TRUE, mimetype |-> m, size |-> n] :
        m \in {"image/jpeg", "image/png", "image/gif", "image/webp"},
        n \in {1, MaxFileSize, MaxFileSize + 1} }

\* what a route step leaves alone
routeFrame == << serviceVars, codecVars, cvalid, smime, sres, laterVars, hfile >>

\* upload.single('image'): a file longer than limits.fileSize ends the
\* request with next(MulterError LIMIT_FILE_SIZE), past the route's handler
Multer_Single ==
    /\ hpc = "received"
    /\ IF hfile.present /\ hfile.size > MaxFileSize
         THEN /\ herr' = FileTooLarge
              /\ hpc' = "error"
         ELSE /\ hpc' = "handler"
              /\ UNCHANGED herr
    /\ UNCHANGED << routeFrame, ingestVars, hstatus >>

\* the handler up to the call of imageService.upload
PostImages_Handler ==
    /\ hpc = "handler"
    /\ IF ~ hfile.present
         THEN /\ hstatus' = 400
              /\ hpc' = "responded"
              /\ UNCHANGED ingestVars
         ELSE /\ gpc' = "new"
              /\ gmime' = hfile.mimetype
              /\ gsize' = hfile.size
              /\ gstream' = hfile.size
              /\ hpc' = "upload"
              /\ UNCHANGED << gwritten, gimage, gerr, hstatus >>
    /\ UNCHANGED << routeFrame, herr >>

\* res.status(201).json(...)
PostImages_Created ==
    /\ hpc = "upload"
    /\ gpc = "done"
    /\ hstatus' = 201
    /\ hpc' = "responded"
    /\ UNCHANGED << routeFrame, ingestVars, herr >>

\* catch (error): 413, 415, or throw error (asyncHandler hands it to next)
PostImages_Catch ==
    /\ hpc = "upload"
    /\ gpc = "failed"
    /\ LET message == ErrorMessage(gerr) IN
         IF Includes(message, << "too", "large" >>)
           THEN /\ hstatus' = 413
                /\ hpc' = "responded"
                /\ UNCHANGED herr
           ELSE IF Includes(message, << "Only", "JPG", "and", "PNG" >>)
                  THEN /\ hstatus' = 415
                       /\ hpc' = "responded"
                       /\ UNCHANGED herr
                  ELSE /\ herr' = message
                       /\ hpc' = "error"
                       /\ UNCHANGED hstatus
    /\ UNCHANGED << routeFrame, ingestVars >>

\* app.use((err, req, res, next) => ...)
ErrorHandler ==
    /\ hpc = "error"
    /\ hstatus' = ErrorStatus(herr)
    /\ hpc' = "responded"
    /\ UNCHANGED << routeFrame, ingestVars, herr >>

RouteInit ==
    /\ ServiceInit
    /\ cop = NoOperation
    /\ cst = "off"
    /\ cbuf = << >>
    /\ cbit = NoBit
    /\ cout = NoResult
    /\ ValidateIdle /\ StoreIdle /\ IngestIdle /\ LaterIdle
    /\ hpc = "received"
    /\ hfile \in FilesSent \cup { NoFile }
    /\ herr = NoMessage
    /\ hstatus = 0

RouteNext ==
    \/ Multer_Single
    \/ PostImages_Handler
    \/ IngestNext
    \/ PostImages_Created
    \/ PostImages_Catch
    \/ ErrorHandler

RouteSpec == RouteInit /\ [][RouteNext]_vars

\* ------------------------------------------------- RedisClient.withLock
\* ttlSeconds, in ticks of the model's clock
LockTtl == 2

\* what a step of the cache client leaves alone
redisFrame == << serviceVars, codecVars, cvalid, smime, sres, ingestVars, routeVars,
                 reconnectVars, uploaderVars >>

\* acquireLock: SET lock:<key> '1' NX EX ttl; withLock throws when the
\* answer is not OK, otherwise the callback starts
WithLock_Acquire(c) ==
    /\ rpc[c] = "idle"
    /\ IF rkey = NoCaller
         THEN /\ rkey' = c
              /\ rttl' = LockTtl
              /\ rpc' = [rpc EXCEPT ![c] = "callback"]
         ELSE /\ rpc' = [rpc EXCEPT ![c] = "failed"]
              /\ UNCHANGED << rkey, rttl >>
    /\ UNCHANGED redisFrame

\* the callback returns or throws
WithLock_CallbackEnds(c) ==
    /\ rpc[c] = "callback"
    /\ rpc' = [rpc EXCEPT ![c] = "release"]
    /\ UNCHANGED << redisFrame, rkey, rttl >>

\* finally: releaseLock is DEL lock:<key>
WithLock_Release(c) ==
    /\ rpc[c] = "release"
    /\ rkey' = NoCaller
    /\ rttl' = 0
    /\ rpc' = [rpc EXCEPT ![c] = "done"]
    /\ UNCHANGED redisFrame

\* a second passes; a key whose time is up is removed by the server
Redis_Tick ==
    /\ rkey # NoCaller
    /\ IF rttl > 1
         THEN rttl' = rttl - 1 /\ UNCHANGED rkey
         ELSE rttl' = 0 /\ rkey' = NoCaller
    /\ UNCHANGED << redisFrame, rpc >>

LockNext ==
    \/ \E c \in Callers : WithLock_Acquire(c)
    \/ \E c \in Callers : WithLock_CallbackEnds(c)
    \/ \E c \in Callers : WithLock_Release(c)
    \/ Redis_Tick

LockSpec == Init /\ [][LockNext]_vars

\* ------------------------------------- applyOp with the operation's check
\* the operations applyOp is called with
OpsHanded == { RotateOp(90), RotateOp(45), ResizeOp(100, Undefined), CompressOp(101) }

\* if (!operation.validate()) throw new Error('Invalid operation parameters')
ApplyOp_Invalid(p) ==
    /\ pc[p] = "idle"
    /\ \A q \in Procs : q < p => pc[q] # "idle"
    /\ err' = [err EXCEPT ![p] = "ValidationError"]
    /\ pc' = [pc EXCEPT ![p] = "done"]
    /\ UNCHANGED << localMode, now, dbVars, lockVars, poolInUse, storeVars,
                    cacheVars, txState, applyLocals, deleteVars, auxVars >>

\* applyOp without the check
ApplyOp_NoValidate(p) == ApplyStep(p)

\* applyOp(imageId, operation), the operation being cop
ApplyOp(p) ==
    \/ ~ Validate(cop) /\ ApplyOp_Invalid(p)
    \/ Validate(cop) /\ ApplyStep(p)

CheckedInit ==
    /\ ServiceInit
    /\ cop \in OpsHanded
    /\ cst = "off"
    /\ cbuf = << >>
    /\ cbit = NoBit
    /\ cout = NoResult
    /\ ValidateIdle /\ StoreIdle /\ IngestIdle /\ ExtraIdle

CheckedNext ==
    \/ \E p \in Procs : ApplyOp(p)
    \/ DeleteStep

CheckedSpec == CheckedInit /\ [][CheckedNext]_vars

\* ------------------------------------------- delete with failing steps
\* await this.cache.invalidateThumbnail(imageId) throws: delete ends there
Delete_InvalidateThumbnailFail ==
    /\ dpc = "invalidate"
    /\ dimage' = {}
    /\ dpc' = "failed"
    /\ UNCHANGED << localMode, now, dbVars, lockVars, poolInUse, storeVars,
                    cacheVars, applyVars, dimg, dfiles, auxVars >>

\* await this.db.deleteImage(imageId) throws: delete ends there
Delete_DeleteImageFail ==
    /\ dpc = "deleteImage"
    /\ dimage' = {}
    /\ dpc' = "failed"
    /\ UNCHANGED << localMode, now, dbVars, lockVars, poolInUse, storeVars,
                    cacheVars, applyVars, dimg, dfiles, auxVars >>

LifeNext ==
    \/ \E p \in Procs : ApplyStep(p)
    \/ DeleteStep
    \/ Delete_InvalidateThumbnailFail
    \/ Delete_DeleteImageFail

LifeSpec == Init /\ [][LifeNext]_vars

\* ------------------------------------- two images, requests on one of them
FrameInit ==
    /\ ServiceStart(TRUE)
    /\ cop = NoOperation
    /\ cst = "off"
    /\ cbuf = << >>
    /\ cbit = NoBit
    /\ cout = NoResult
    /\ ValidateIdle /\ StoreIdle /\ IngestIdle /\ ExtraIdle

FrameNext ==
    \/ \E p \in Procs : ApplyStep(p)
    \/ \E u \in Undos : UndoStep(u)

FrameSpec == FrameInit /\ [][FrameNext]_vars

\* ------------------------------------------ RedisClient reconnectStrategy
\* the retry counts the strategy is first called with
RetriesTried == 0 .. 30

\* Math.min(a, b)
Min(a, b) == IF a < b THEN a ELSE b

\* reconnectStrategy: (retries) => retries > 10 ? new Error(...)
\*                                              : Math.min(retries * 100, 3000)
ReconnectStrategy(retries) ==
    IF retries > 10
      THEN [error |-> TRUE, delay |-> 0]
      ELSE [error |-> FALSE, delay |-> Min(retries * 100, 3000)]

\* what a call of the strategy leaves alone
reconnectFrame == << serviceVars, codecVars, cvalid, smime, sres, ingestVars,
                     routeVars, redisVars, uploaderVars >>

\* the socket asks for the next delay; after an Error it asks no more
ReconnectStrategy_Call ==
    /\ Len(kanswers) < 2
    /\ \A k \in DOMAIN kanswers : ~ kanswers[k].error
    /\ kanswers' = Append(kanswers, ReconnectStrategy(kretries))
    /\ kretries' = kretries + 1
    /\ UNCHANGED reconnectFrame

ReconnectInit ==
    /\ ServiceInit
    /\ cop = NoOperation
    /\ cst = "off"
    /\ cbuf = << >>
    /\ cbit = NoBit
    /\ cout = NoResult
    /\ ValidateIdle /\ StoreIdle /\ IngestIdle /\ RouteIdle /\ RedisIdle /\ UploaderIdle
    /\ kretries \in RetriesTried
    /\ kanswers = << >>

ReconnectNext == ReconnectStrategy_Call

ReconnectSpec == ReconnectInit /\ [][ReconnectNext]_vars

\* ---------------------------------------------------------- ImageUploader
\* the number of upload attempts followed
MaxDrops == 2

\* the files dropped: their type and size
FilesDropped ==
    { [type |-> t, size |-> n] :
        t \in {"image/jpeg", "image/png", "image/gif"},
        n \in {1, 10 * 1024 * 1024 + 1} }

\* what a step of the component leaves alone
uploaderFrame == << serviceVars, codecVars, cvalid, smime, sres, ingestVars,
                    routeVars, redisVars, reconnectVars >>

\* onDrop up to the await: the two checks, setUploading(true),
\* setProgress(0), setInterval(...); the dropzone is disabled while uploading
OnDrop(file) ==
    /\ ~ wuploading
    /\ wpc = "idle"
    /\ wdrops < MaxDrops
    /\ IF file.size > 10 * 1024 * 1024 \/ file.type \notin {"image/jpeg", "image/png"}
         THEN UNCHANGED << wpc, wuploading, wprogress, wintervals, wfailed, wdrops >>
         ELSE /\ wuploading' = TRUE
              /\ wprogress' = 0
              /\ wintervals' = wintervals + 1
              /\ wfailed' = FALSE
              /\ wdrops' = wdrops + 1
              /\ wpc' = "awaiting"
    /\ UNCHANGED uploaderFrame

\* an interval that is still set fires: setProgress(prev => min(prev + 10, 90))
ProgressInterval_Fires ==
    /\ wintervals > 0
    /\ wprogress' = Min(wprogress + 10, 90)
    /\ UNCHANGED << uploaderFrame, wpc, wuploading, wintervals, wfailed, wdrops >>

\* apiClient.uploadImage resolves: clearInterval, setProgress(100), setTimeout
OnDrop_Resolved ==
    /\ wpc = "awaiting"
    /\ wintervals' = wintervals - 1
    /\ wprogress' = 100
    /\ wpc' = "timeout"
    /\ UNCHANGED << uploaderFrame, wuploading, wfailed, wdrops >>

\* the 500 ms timeout fires: onUploadSuccess, setUploading(false), setProgress(0)
OnDrop_TimeoutFires ==
    /\ wpc = "timeout"
    /\ wuploading' = FALSE
    /\ wprogress' = 0
    /\ wpc' = "idle"
    /\ UNCHANGED << uploaderFrame, wintervals, wfailed, wdrops >>

\* apiClient.uploadImage rejects: onError, setUploading(false), setProgress(0)
OnDrop_Caught ==
    /\ wpc = "awaiting"
    /\ wuploading' = FALSE
    /\ wprogress' = 0
    /\ wfailed' = TRUE
    /\ wpc' = "idle"
    /\ UNCHANGED << uploaderFrame, wintervals, wdrops >>

UploaderNext ==
    \/ \E file \in FilesDropped : OnDrop(file)
    \/ ProgressInterval_Fires
    \/ OnDrop_Resolved
    \/ OnDrop_TimeoutFires
    \/ OnDrop_Caught

UploaderSpec == Init /\ [][UploaderNext]_vars

\* ------------------------------------------------- bytes from the wire
\* the header fields and payloads of the byte sequences handed to decode:
\* right and wrong versions, known and unknown op types, payloads in and out
\* of range, declared lengths around the real one, good and bad checksums,
\* whole and cut-off messages
WireVersions == {0, 1, 2}
WireOpTypes == 0 .. 5
WirePayloads ==
    { << >>, << 45 >>, << 90 >>, << 3 >>, << 5 >>, << 55 >>,
      << 32, 3, 0, 0, 0, 0, 0, 0 >>, << 100, 0, 0, 0, 136, 19, 0, 0 >> }
WireLenDeltas == {-1, 0, 1}
WireKeep == {0, 11, 12, 20}

\* the words a payload_len field may hold for a payload of n bytes
DeclaredLens(n) ==
    { BitsOf(n + d, 31) : d \in { x \in WireLenDeltas : n + x >= 0 } } \cup { {31} }

\* the first n elements of a sequence (all of it when it is shorter)
Prefix(seq, n) == SubSeq(seq, 1, IF n < Len(seq) THEN n ELSE Len(seq))

\* the checksum of the bytes decode will take as the payload
DeclaredCRC(payload, len) ==
    CalculateCRC32(IF 31 \in len THEN payload ELSE Prefix(payload, ValueOf(len)))

WireMessage(version, opType, len, crc, payload) ==
    WriteUInt16LE(version) \o WriteUInt16LE(opType) \o WriteWordLE(len)
        \o WriteWordLE(crc) \o payload

WireInputs ==
    UNION { UNION { { Prefix(WireMessage(v, t, len, crc, payload), k)
                        : crc \in { DeclaredCRC(payload, len),
                                    Xor(DeclaredCRC(payload, len), {0}) },
                          k \in WireKeep }
                    : len \in DeclaredLens(Len(payload)) }
            : v \in WireVersions, t \in WireOpTypes, payload \in WirePayloads }

WireInit ==
    /\ ServiceInit
    /\ cop = NoOperation
    /\ cst = "received"
    /\ cbuf \in WireInputs
    /\ cbit = NoBit
    /\ cout = NoResult
    /\ ValidateIdle /\ StoreIdle /\ IngestIdle /\ ExtraIdle

WireNext == Codec_Decode

WireSpec == WireInit /\ [][WireNext]_vars

\* ---------------------------------------------------------------- Spec
Next ==
    \/ \E p \in Procs : ApplyStep(p)
    \/ DeleteStep

Spec == Init /\ [][Next]_vars

\* every call that can take a step eventually takes one: a task suspended at
\* an await is resumed when the awaited call completes
FairSpec ==
    /\ Init /\ [][Next]_vars
    /\ \A p \in Procs : WF_vars(ApplyStep(p))
    /\ WF_vars(DeleteStep)

\* ---------------------------------------------------------------- claims
\* the call is inside the withImageLock callback or has not yet ended its
\* transaction
InCallback(p) ==
    pc[p] \in {"getImage", "getLatest", "download", "upload", "insert",
               "invalidate", "commit", "rollback"}

\* the call returned a revision to its caller
Succeeded(p) == pc[p] = "done" /\ ret[p] = "revision"

Children(rows, r) == { c \in rows : c.parent_id = r.id }

\* the object a successful call wrote for row r: results/<image>_<rev>.<ext>
\* with <rev> minted by the call that inserted r
BlobOf(r) == Path("", r.image_id, Uuid("svc", r.id.n))

\* C1: when all the apply_op calls issued concurrently on one image have
\* succeeded (no delete), the image has one revision per call and the
\* parent_id links form a single chain: one root, at most one child per
\* revision, one revision without a child.
C1_SingleChain ==
    (dpc = "idle" /\ \A p \in Procs : Succeeded(p) /\ img[p] = "A") =>
        LET R == RowsOf(revisions, "A") IN
        /\ Cardinality(R) = MaxOps
        /\ Cardinality({ r \in R : r.parent_id = NullId }) = 1
        /\ \A r \in R : Cardinality(Children(R, r)) <= 1
        /\ Cardinality({ r \in R : Children(R, r) = {} }) = 1

\* C2: of two committed revisions of one image, the one whose call held the
\* row lock first has the strictly smaller created_at.
C2_CreatedAtFollowsLockOrder ==
    \A r1 \in revisions : \A r2 \in revisions :
        (r1.image_id = r2.image_id /\ r1.lock_seq < r2.lock_seq)
            => r1.created_at < r2.created_at

\* C3: no two apply_op calls on the same existing image are inside the
\* withImageLock callback at once, and every revision row is inserted by a
\* call that holds the row lock of its image.
C3_Serialized ==
    /\ \A i \in ImageIds : GetImage(i) # {} =>
          Cardinality({ p \in Procs : InCallback(p) /\ img[p] = i }) <= 1
    /\ \A p \in Procs : \A r \in pending[p] : lockHolder[r.image_id] = p
    /\ \A r \in revisions : r.lock_seq > 0

C3_Witness ==
    \E p \in Procs : \E q \in Procs :
        /\ p # q
        /\ pending[p] # {}
        /\ pc[q] = "lock"
        /\ img[p] = img[q]

\* C4: the row an apply_op inserts has as parent_id the id of the latest
\* revision of the image (null when there is none), and the call read its
\* source bytes from that revision's blob in results (from the original in
\* raw when there is none).
C4_SourceIsLatest ==
    \A p \in Procs : \A r \in pending[p] :
        IF GetLatestRevision(revisions, img[p]) = {}
          THEN /\ r.parent_id = NullId
               /\ source[p] = { [bucket |-> "raw", object |-> RawObject(localMode, img[p])] }
          ELSE \E l \in GetLatestRevision(revisions, img[p]) :
               /\ r.parent_id = l.id
               /\ source[p] = { [bucket |-> "results", object |-> BlobOf(l)] }

C4_Witness ==
    \E p \in Procs : \E q \in Procs :
        /\ pending[p] # {}
        /\ pending[q] = {}
        /\ \E r \in pending[p] : r.parent_id = Uuid("db", q)
        /\ source[p] = { [bucket |-> "results", object |-> ResultObject(q)] }

\* the object in results a (results, path) read looks up
ResultsObjectAt(path) == ObjectOf(localMode, path)

\* C5: immediately after the transaction that inserted a revision row
\* commits, results holds an object at the row's storage_path.
C5_BlobExistsAtCommit ==
    [][\A r \in revisions' \ revisions :
          ResultsObjectAt(r.storage_path) \in resultsBucket']_vars

\* the rows the read-only operations can return
Readable ==
    UNION { GetRevisionHistory(revisions, i) \cup GetLatestRevision(revisions, i)
            : i \in ImageIds }
      \cup UNION { GetRevision(revisions, Uuid("db", p)) : p \in Procs }

\* C6: no read-only operation returns a committed revision row whose
\* storage_path has no object in results.
C6_NoDanglingRevision ==
    \A r \in Readable : ResultsObjectAt(r.storage_path) \in resultsBucket

\* C7: when the write of the result bytes fails, the call fails, its
\* transaction is rolled back and no revision row of the call exists.
C7_UploadFailureRollsBack ==
    \A p \in Procs : err[p] = "StorageError" =>
        /\ pc[p] \in {"rollback", "release", "done"}
        /\ pending[p] = {}
        /\ GetRevision(revisions, Uuid("db", p)) = {}
        /\ pc[p] \in {"release", "done"} => txState[p] = "rolledback"
        /\ pc[p] = "done" => ret[p] = "throw"

C7_Witness ==
    \E p \in Procs :
        /\ err[p] = "StorageError"
        /\ pc[p] = "done"
        /\ revisions # {}

\* C8: apply_op on an image id without an image row fails with not-found,
\* its transaction is rolled back and it writes nothing: no results blob,
\* no revision row, no cache invalidation.
C8_MissingImageNotFound ==
    \A p \in Procs :
        /\ pc[p] \in {"getLatest", "download", "upload", "insert", "invalidate", "commit"}
              => image[p] # {} /\ GetImage(img[p]) # {}
        /\ Succeeded(p) => err[p] = "none"
        /\ err[p] = "NotFound" =>
              /\ pc[p] \in {"rollback", "release", "done"}
              /\ ResultObject(p) \notin resultsBucket
              /\ pending[p] = {}
              /\ GetRevision(revisions, Uuid("db", p)) = {}
              /\ p \notin invalidated
              /\ pc[p] \in {"release", "done"} => txState[p] = "rolledback"
              /\ pc[p] = "done" => ret[p] = "throw"

C8_Witness ==
    \E p \in Procs :
        /\ err[p] = "NotFound"
        /\ pc[p] = "done"
        /\ GetImage(img[p]) = {}

\* C9: when the cache invalidation fails during apply_op the failure is
\* swallowed: the call succeeds, its revision row is committed and the
\* caller receives the revision.
C9_CacheFailureSwallowed ==
    \A p \in Procs : (err[p] = "CacheError" /\ pc[p] = "done") =>
        /\ txState[p] = "committed"
        /\ ret[p] = "revision"

\* withImageLock has ended its transaction: committed exactly when nothing
\* failed, rolled back otherwise, the row lock given up
C10_Ended ==
    \A p \in Procs :
        /\ pc[p] \in {"release", "done"} =>
              /\ txState[p] = (IF err[p] = "none" THEN "committed" ELSE "rolledback")
              /\ \A i \in ImageIds : lockHolder[i] # p
              /\ pending[p] = {}
        /\ pc[p] = "getImage" => (lockHolder[img[p]] = p \/ GetImage(img[p]) = {})

\* the connections checked out are those of the calls in flight
C10_PoolReturned ==
    poolInUse = Cardinality({ p \in Procs : pc[p] \notin {"idle", "done"} })

\* C10: withImageLock commits exactly when the callback returns normally and
\* rolls back exactly when the callback or the commit fails; either way the
\* row lock and the pooled connection are released, so the apply_op calls
\* waiting for the row lock all get past the wait (holding the lock, unless
\* the image row is gone).
C10_LockReleasedOnAllPaths ==
    /\ [](C10_Ended /\ C10_PoolReturned)
    /\ (\E p \in Procs : pc[p] = "lock") ~> (\A p \in Procs : pc[p] # "lock")

C10_Witness ==
    \E p \in Procs : \E q \in Procs :
        /\ pc[p] = "lock"
        /\ pc[q] = "rollback"
        /\ lockHolder[img[p]] = q

\* C11: after a successful undo that returns p, the parent of the revision
\* cur that was the latest one (no apply_op and no other undo since),
\* get_latest_revision returns p and get_history no longer contains cur.
C11_UndoMakesParentLatest ==
    \A u \in Undos :
        ( /\ UndoSucceeded(u) /\ uquiet[u]
          /\ \A v \in Undos \ {u} : upc[v] = "idle"
          /\ \A p \in ufree[u] : pc[p] = "idle" ) =>
            \A cur \in ucurrent[u] :
                /\ GetLatestRevision(revisions, cur.image_id) = uparent[u]
                /\ cur \notin GetRevisionHistory(revisions, cur.image_id)

\* C12: the first apply_op issued after a successful undo (no other undo)
\* reads its source bytes from the blob of the revision that undo returned
\* and records that revision's id as parent_id.
C12_ApplyAfterUndoUsesUndoResult ==
    \A u \in Undos : \A p \in Procs :
        ( /\ UndoSucceeded(u) /\ uquiet[u]
          /\ \A v \in Undos \ {u} : upc[v] = "idle"
          /\ p \in ufree[u]
          /\ \A q \in ufree[u] \ {p} : pc[q] = "idle" ) =>
            \A r \in pending[p] : \E par \in uparent[u] :
                /\ r.parent_id = par.id
                /\ source[p] = { [bucket |-> "results", object |-> BlobOf(par)] }

\* C13: of two consecutive successful undo calls on a chain r1 <- r2 <- r3
\* with no apply_op in between, the first returns r2 and the second returns
\* r1, the parent of the revision the first returned, never r2 again.
C13_ConsecutiveUndosWalkBack ==
    \A u \in Undos : \A v \in Undos :
        ( /\ UndoSucceeded(u) /\ UndoSucceeded(v)
          /\ u \in ubefore[v]
          /\ uquiet[u] /\ uquiet[v]
          /\ ufree[u] = ufree[v]
          /\ \A r \in uparent[u] : r.parent_id # NullId ) =>
            /\ uparent[u] # uparent[v]
            /\ \A r \in uparent[u] : \A s \in uparent[v] : r.parent_id = s.id

\* the undo call u takes a step
UndoActs(u) == upc'[u] # upc[u]

\* C14: undo fails with nothing-to-undo exactly when the image has no latest
\* revision and with cannot-undo-original exactly when the latest revision
\* has parent_id null; in both cases the step that fails changes no row, no
\* blob and no cache entry.
C14_UndoFailures ==
    [][\A u \in Undos : (upc[u] = "idle" /\ UndoActs(u)) =>
          LET latest == GetLatestRevision(revisions, "A") IN
          /\ uerr'[u] = "NothingToUndo" <=> latest = {}
          /\ uerr'[u] = "CannotUndoOriginal" <=>
                (latest # {} /\ \A r \in latest : r.parent_id = NullId)
          /\ uerr'[u] \in {"NothingToUndo", "CannotUndoOriginal"} =>
                /\ upc'[u] = "done"
                /\ UNCHANGED << dbVars, storeVars, cacheVars >>]_vars

C14_Witness ==
    \E u \in Undos : \E v \in Undos :
        /\ upc[u] = "done" /\ uerr[u] = "NothingToUndo"
        /\ upc[v] = "done" /\ uerr[v] = "CannotUndoOriginal"
        /\ \E r \in ucurrent[v] : r \in revisions

\* C15: no step of an undo call, failing or not, inserts or deletes a
\* revision row or changes the objects in results.
C15_UndoWritesNoRow ==
    [][(\E u \in Undos : UndoActs(u)) =>
          /\ revisions' = revisions
          /\ resultsBucket' = resultsBucket]_vars

C15_Witness ==
    \E u \in Undos : \E v \in Undos :
        /\ UndoSucceeded(u)
        /\ ucurrent[u] # {} /\ ucurrent[u] \subseteq revisions
        /\ uparent[u] # {} /\ uparent[u] \subseteq revisions
        /\ upc[v] = "done" /\ uerr[v] # "none"

\* the call is inside the critical section: it holds the row lock of its image
InCriticalSection(p) == InCallback(p) /\ lockHolder[img[p]] = p

\* C16: between its read of the latest revision and its cache invalidation
\* an undo call never overlaps the critical section of an apply_op call on
\* the same image.
C16_UndoHoldsImageLock ==
    \A u \in Undos : upc[u] \in {"getRevision", "invalidate"} =>
        \A p \in Procs : ~ InCriticalSection(p)

\* following parent_id from r ends at parent_id null, every parent found
\* among rows with the image_id of r, and no revision met twice
RECURSIVE WalkEnds(_, _, _)
WalkEnds(rows, r, seen) ==
    \/ r.parent_id = NullId
    \/ /\ r.parent_id \notin seen \cup {r.id}
       /\ \E q \in rows :
             /\ q.id = r.parent_id
             /\ q.image_id = r.image_id
             /\ WalkEnds(rows, q, seen \cup {r.id})

C18_DeleteLeavesNothing ==
    dpc = "done" =>
        /\ GetImage(dimg) = {}
        /\ GetRevisionHistory(revisions, dimg) = {}
        /\ { o \in resultsBucket : o.image = dimg } = {}
        /\ ThumbObject(dimg) \notin thumbBucket

\* C19: for every operation that passes validate() with integer parameters,
\* encode succeeds and decode(encode(op)) is an operation of the same type
\* with the same parameters.
C19_RoundTrip ==
    Validate(cop) =>
        /\ cst # "encodeFailed"
        /\ (cst = "decoded" /\ cbit = NoBit) => cout = Decoded(cop)

\* C20: decoding the encoding of a valid operation with any single bit
\* flipped (version, op_type, payload_len, crc32 or payload) fails.
C20_BitFlipDetected ==
    (Validate(cop) /\ cst = "decoded" /\ cbit # NoBit) => ~ cout.ok

\* payload_len is larger than what follows the header
PayloadLenExceeds(data) ==
    \/ data[8] >= 128
    \/ data[5] + 256 * data[6] + 65536 * data[7] + 16777216 * data[8]
          > Len(data) - HEADER_SIZE

\* the stored crc32 is not the CRC-32 of the payload_len bytes after the header
StoredCrcDiffers(data) ==
    LET n == data[5] + 256 * data[6] + 65536 * data[7] + 16777216 * data[8] IN
    WriteWordLE(CalculateCRC32(SubSeq(data, HEADER_SIZE + 1, HEADER_SIZE + n)))
        # SubSeq(data, 9, 12)

\* C21: decode fails, returning no operation, for every input shorter than
\* 12 bytes, with a version field other than 1, with payload_len larger than
\* the input length minus 12, or whose stored crc32 differs from the CRC-32
\* of the payload_len bytes after the header.
C21_DecodeRejectsMalformed ==
    cst = "decoded" =>
        ( ( \/ Len(cbuf) < 12
            \/ cbuf[1] # 1 \/ cbuf[2] # 0
            \/ PayloadLenExceeds(cbuf)
            \/ StoredCrcDiffers(cbuf) ) => ~ cout.ok )

C21_Witness ==
    /\ cst = "decoded"
    /\ Len(cbuf) = 20
    /\ cbuf[1] = 1 /\ cbuf[2] = 0
    /\ ~ PayloadLenExceeds(cbuf)
    /\ StoredCrcDiffers(cbuf)
    /\ ~ cout.ok

\* C22: decode never returns an operation for which validate() is false: a
\* message with good length, version and checksum whose payload is out of
\* range (ROTATE 45, COMPRESS 5) makes decode fail.
C22_DecodeValidates ==
    (cst = "decoded" /\ cout.ok) => Validate(cout.op)

Present(n) == n # Undefined

\* a resize bound inside the accepted range
InResizeRange(n) == n >= 200 /\ n <= 4000

\* C28: ResizeOp.validate() returns true exactly when at least one of width
\* and height is present and every present bound lies in [200, 4000]; a
\* present bound outside the range (0, 100, 5000, ...) makes it false.
C28_ResizeValidate ==
    (cst = "validated" /\ cop.type = RESIZE) =>
        (cvalid <=>
            /\ Present(cop.width) \/ Present(cop.height)
            /\ Present(cop.width) => InResizeRange(cop.width)
            /\ Present(cop.height) => InResizeRange(cop.height))

\* C29: RotateOp.validate() returns true exactly when degrees is 90, 180 or
\* 270, and false for every other value (45, 360, ...).
C29_RotateValidate ==
    (cst = "validated" /\ cop.type = ROTATE) =>
        (cvalid <=> cop.degrees \in {90, 180, 270})

C29_Witness ==
    /\ cst = "validated"
    /\ cop = RotateOp(45)
    /\ ~ cvalid

\* C30: CompressOp.validate() returns true exactly when 10 <= quality <= 100,
\* both bounds accepted, and false otherwise (5, 101, ...).
C30_CompressValidate ==
    (cst = "validated" /\ cop.type = COMPRESS) =>
        (cvalid <=> (cop.quality >= 10 /\ cop.quality <= 100))

C30_Witness ==
    /\ cst = "validated"
    /\ cop = CompressOp(10)
    /\ cvalid

\* C25: for every committed revision row r, r.storage_path has the form
\* <r.image_id>_<r.id>.<ext>: the revision id in the results path is the id
\* of the row that references it.
C25_PathNamesItsRow ==
    \A r \in revisions :
        /\ r.storage_path.image = r.image_id
        /\ r.storage_path.rev = r.id

\* the mime type a path extension stands for
MimeOfExtension(ext) ==
    CASE ext = "jpg" -> "image/jpeg"
      [] ext = "png" -> "image/png"
      [] ext = "webp" -> "image/webp"
      [] OTHER -> "application/octet-stream"

\* C24: the mime type under which apply_op stores the result blob (content
\* type and path extension) is image/jpeg whenever the operation is
\* COMPRESS, whatever the source mime, and equals the source image's mime
\* type for ROTATE, FLIP and RESIZE.
C24_ResultMime ==
    sres # NoStored =>
        LET expected == IF cop.type = COMPRESS THEN "image/jpeg" ELSE smime IN
        /\ MimeOfExtension(sres.ext) = expected
        /\ sres.contentType # NoContentType => sres.contentType = expected

\* the stores as they were before the upload call
NothingWritten ==
    /\ gwritten = -1
    /\ gimage = {}
    /\ rawBucket = { RawObject(localMode, "A") }
    /\ images = { ImageRow(localMode, "A") }
    /\ thumbBucket = { ThumbObject("A") }
    /\ cache = {"A"}

\* C26: ingest fails with a too-large error when the size exceeds 10 MiB and
\* with an unsupported-mime error when the mime is not image/jpeg or
\* image/png (the size is tested first), and in both cases it returns before
\* anything is written: no raw blob, no image row, no thumbnail, no cache
\* entry.
C26_IngestRejects ==
    gpc # "new" =>
        /\ gsize > MaxImageBytes => gpc = "failed" /\ gerr = "TooLarge"
        /\ (gsize <= MaxImageBytes /\ gmime \notin {"image/jpeg", "image/png"}) =>
              gpc = "failed" /\ gerr = "UnsupportedMime"
        /\ gerr \in {"TooLarge", "UnsupportedMime"} => NothingWritten

C26_Witness ==
    /\ gpc = "failed"
    /\ gerr = "UnsupportedMime"
    /\ gmime = "image/gif"
    /\ NothingWritten

\* C27: for every image row created by ingest, size_bytes equals the number
\* of bytes actually written to the raw bucket for that image, for every
\* stream and every declared size passed to ingest.
C27_SizeIsBytesWritten ==
    \A row \in gimage : row \in images => row.size_bytes = gwritten

\* C31: on POST /v1/images a file larger than 10 MiB is answered with 413
\* and a file whose mime type is neither image/jpeg nor image/png with 415,
\* the upload middleware's own limit and the error handler included.
C31_UploadStatus ==
    (hpc = "responded" /\ hfile.present) =>
        /\ hfile.size > 10 * 1024 * 1024 => hstatus = 413
        /\ (hfile.size <= 10 * 1024 * 1024
              /\ hfile.mimetype \notin {"image/jpeg", "image/png"}) => hstatus = 415

\* RevisionService.getHistory: the row sequences SELECT ... WHERE image_id = i
\* ORDER BY created_at ASC may return
GetHistory(rows, i) ==
    LET S == GetRevisionHistory(rows, i)
        n == Cardinality(S)
    IN  { h \in [1 .. n -> S] :
            /\ \A r \in S : \E k \in 1 .. n : h[k] = r
            /\ \A k \in 1 .. n : \A l \in 1 .. n :
                  k < l => h[k].created_at <= h[l].created_at }

\* the revisions an undo that has returned took back
Undone == UNION { ucurrent[u] : u \in { v \in Undos : UndoSucceeded(v) /\ uquiet[v] } }

\* C32: get_history(imageId) returns exactly the revisions of that image
\* that have not been undone, each once, ordered by ascending created_at,
\* and this order is the order in which their apply_op calls held the
\* per-image lock.
C32_HistoryContents ==
    \A i \in ImageIds : \A h \in GetHistory(revisions, i) :
        /\ { h[k] : k \in DOMAIN h } = RowsOf(revisions, i) \ Undone
        /\ \A k \in DOMAIN h : \A l \in DOMAIN h :
              k < l => /\ h[k] # h[l]
                       /\ h[k].created_at <= h[l].created_at
                       /\ h[k].lock_seq < h[l].lock_seq

\* C33: for every key at most one with_lock callback is executing at any
\* time, also when a holder's callback outlasts the TTL so that the key
\* expires and another caller acquires it; a caller whose acquire_lock
\* returned false runs no callback and does not remove the holder's lock.
C33_OneCallbackPerKey ==
    \A c \in Callers : \A d \in Callers :
        (rpc[c] = "callback" /\ rpc[d] = "callback") => c = d

\* C34: apply_op called with an operation for which validate() is false
\* fails with a validation error before the per-image lock is requested and
\* before any read or write: no source blob is fetched, no result blob is
\* written, no revision row is inserted and the thumbnail cache is not
\* invalidated, whether or not the image exists.
C34_InvalidOpTouchesNothing ==
    [][ ~ Validate(cop) =>
          \A p \in Procs :
              pc'[p] # pc[p] =>
                  /\ pc'[p] = "done"
                  /\ err'[p] = "ValidationError"
                  /\ ret'[p] = ret[p]
                  /\ UNCHANGED << dbVars, storeVars, cacheVars, lockVars, poolInUse,
                                  txState, source, resultPath, pending >> ]_vars

C34_Witness ==
    /\ ~ Validate(cop)
    /\ images = {}
    /\ \E p \in Procs : pc[p] = "done" /\ err[p] = "ValidationError"
    /\ \E p \in Procs : pc[p] = "done" /\ err[p] = "ValidationError" /\ p > 1

\* C35: lifecycle expiry aside, in every reachable state in which an image
\* row exists the blob at its original_path exists in the raw store; this
\* holds across apply_op and delete, also when a step of delete fails after
\* an earlier step has completed (stated here for the states in which no
\* delete is under way).
C35_RowHasRawBlob ==
    dpc \in {"idle", "done", "failed"} =>
        \A r \in images : ObjectOf(localMode, r.original_path) \in rawBucket

\* C36: for every image row created by ingest, the identifier embedded in
\* its original_path (<owner>/<imageId>.<ext>) is the id of that row, the id
\* ingest returns and thumbnails, revisions and delete are keyed by.
C36_PathNamesImageRow ==
    \A row \in gimage : row \in images => row.original_path.image = row.id

\* C37: apply_op and undo on image A leave everything belonging to another
\* image B unchanged, in every interleaving: B's image row, B's revision
\* rows, B's blobs in raw, results and thumb, and B's thumbnail cache entry.
C37_OtherImageUntouched ==
    /\ GetImage(NewRowId) = { OtherImageRow(localMode) }
    /\ RowsOf(revisions, NewRowId) = { OtherRevision(localMode) }
    /\ { o \in rawBucket : o.image = NewImageId } = { RawObject(localMode, NewImageId) }
    /\ { o \in resultsBucket : o.image = NewRowId } = { OtherResult }
    /\ { o \in thumbBucket : o.image = NewRowId } = { ThumbObject(NewRowId) }
    /\ NewRowId \in cache

C37_Witness ==
    /\ \E p \in Procs : Succeeded(p) /\ p \in invalidated
    /\ \E u \in Undos : UndoSucceeded(u)
    /\ Cardinality(RowsOf(revisions, "A")) >= 2
    /\ "A" \notin cache
    /\ NewRowId \in cache

\* the retry count the k-th recorded call of the strategy was given
RetriesAt(k) == kretries - Len(kanswers) + k - 1

\* C38: the reconnect strategy gives up with an error after ten retries, and
\* before that returns a delay that grows exponentially with the retry count
\* (each delay at least twice the one before, until the cap) and never
\* exceeds 3000 ms.
C38_ReconnectBackoff ==
    /\ \A k \in DOMAIN kanswers :
          /\ RetriesAt(k) > 10 => kanswers[k].error
          /\ RetriesAt(k) < 10 => ~ kanswers[k].error
          /\ ~ kanswers[k].error => kanswers[k].delay <= 3000
    /\ \A k \in DOMAIN kanswers : \A l \in DOMAIN kanswers :
          (l = k + 1 /\ ~ kanswers[k].error /\ ~ kanswers[l].error) =>
              \/ kanswers[l].delay = 3000
              \/ /\ kanswers[l].delay > kanswers[k].delay
                 /\ kanswers[l].delay >= 2 * kanswers[k].delay

\* C39: in the ImageUploader component, after an upload attempt fails the
\* component returns to its idle state and stays there: uploading is false
\* and progress is 0 until the next upload starts (no timer started by the
\* failed attempt changes progress afterwards).
C39_IdleAfterFailure ==
    wfailed => (~ wuploading /\ wprogress = 0)

====
